---- MODULE Spec2Model ----
(*
  Agent workflow orchestration engine (backend/app/services/agent_orchestrator.py,
  agent_workflow_service.py, agent_context_builder.py, api/agents.py, main.py).

  One Execution of one Task is modelled together with the database sessions
  that work on it:
    - the background runner  (_run_workflow_background: start_execution,
      commit, execute_workflow, commit / rollback),
    - the cancel endpoint    (cancel_execution, commit),
    - handle_review_feedback (its own session, commit inside),
    - a start_execution call in a session of its own,
    - a process restart followed by cleanup_stale_executions.
  The database is PostgreSQL (READ COMMITTED): a session sees committed rows
  plus its own flushed rows, an UPDATE of a row another open transaction has
  updated waits for that transaction to end, and the ORM objects of a session
  are never re-read once loaded (sessions do not expire objects on commit,
  otherwise execute_workflow could not touch `execution` after line 113 of
  api/agents.py).  Timestamps are abstracted to the operation that took them.

  The helper methods of the orchestrator that compute a result from their
  arguments and from what the git and CLI commands answer are modelled as
  operators, each applied by a specification of its own to every input of a
  bounded set (variable `call`): _build_result_summary (SpecSummary),
  _get_git_changed_files (SpecChanges), _checkout_branch (SpecCheckout), the
  development phase around them (SpecDevelopment), the stream parsing of
  _run_cli_with_streaming_pty (SpecPty) and its milestone loop (SpecMilestone).
*)
EXTENDS Integers, Sequences, FiniteSets, TLC

\* ------------------------------------------------------------------ bounds
MaxCancelCalls == 2
MaxStartCalls == 1
MaxFeedbackCalls == 2
MaxRestarts == 1
MaxQueryRows == 3
MaxSummaryRows == 2
MaxFiles == 2
MaxStream == 4
MaxReads == 4
MaxCreates == 2
MaxTaskCalls == 2

\* ------------------------------------------------------- program constants
\* AgentExecution.max_iterations: column default, never assigned elsewhere
MaxIterations == 3
\* AgentExecution.iteration: column default
FirstIteration == 1

NULL == "NULL"

Phases == {"architecture", "development", "review"}
WorkflowTypes == {"development", "quick_development", "architecture_only", "review_only"}
Statuses == {"pending", "running", "completed", "failed", "cancelled", "awaiting_clarification"}
Terminal == {"completed", "failed", "cancelled"}
Verdicts == {"APPROVED", "CHANGES_REQUESTED", "OTHER"}

\* what the backend call of a phase method can meet:
\*   "ok"           the backend answers
\*   "unavailable"  health check fails, CLI binary or credentials missing
\*   "timeout"      the wall-clock timeout of the call expires
\*   "error"        the call itself fails: the provider raises, the stream
\*                  yields an error event, the CLI exits non-zero, the PTY
\*                  driver raises an error other than a timeout
\*   "malformed"    the backend answers with text that holds no JSON result
\*   "io_error"     a statement of the phase method outside the backend call
\*                  raises (workspace, git or database error)
BackendOutcomes == {"ok", "unavailable", "timeout", "error", "malformed", "io_error"}

\* the outcomes met while the backends are up
ServingOutcomes == {"ok", "io_error"}

VARIABLES
    workflow_type,  \* execution.workflow_type (fixed at creation)
    origin,         \* "api": start endpoint + background runner; "service": AgentWorkflowService.start_*_phase
    dbExec,         \* committed agent_executions row
    dbTask,         \* committed tasks row (agent mirror columns)
    outputs,        \* agent_outputs rows in created_at order, each with owner session and committed flag
    activities,     \* task_activities rows, each with owner session and committed flag
    execLock,       \* session holding an uncommitted UPDATE of the execution row
    taskLock,       \* session holding an uncommitted UPDATE of the task row
    rpc,            \* background runner: position
    rexec,          \* background runner: its in-memory AgentExecution object
    rtask,          \* background runner: its in-memory task.agent_status
    ridx,           \* background runner: index of the current phase in the phase list
    rreview,        \* background runner: review_result.status of the last review call
    rdirty,         \* background runner: execution columns written in the open transaction
    hpc,            \* handle_review_feedback: position
    hexec,          \* handle_review_feedback: its in-memory AgentExecution object
    cpc,            \* cancel endpoint: position
    calls,          \* number of calls made to each entry point
    resp,           \* outcome of the last call of each entry point
    backends,       \* what a backend call of a phase can meet in this behaviour
    qresult,        \* row returned by the last latest-output query
    call            \* a helper function under test: its name, argument and result

vars == <<workflow_type, origin, dbExec, dbTask, outputs, activities, execLock, taskLock,
          rpc, rexec, rtask, ridx, rreview, rdirty, hpc, hexec, cpc, calls, resp,
          backends, qresult, call>>

\* fixed at creation / written by no request handler
cfgVars == <<workflow_type, origin, backends, qresult, call>>

dbVars == <<dbExec, dbTask, outputs, activities, execLock, taskLock>>
runnerVars == <<rpc, rexec, rtask, ridx, rreview, rdirty>>
hrfVars == <<hpc, hexec>>

\* ------------------------------------------------------------- data model

\* result_summary = NULL
NoSummary == [present |-> FALSE, phases_completed |-> 0, iterations |-> 0, review_status |-> NULL]

\* no helper function is under test
NoCall == [fn |-> NULL, arg |-> NULL, out |-> NULL, done |-> FALSE]

\* no latest-output query has been answered
NoQuery == [phase |-> NULL, row |-> 0]

\* AgentExecution(...) as built by create_execution, column defaults applied
NewExecution ==
    [status |-> "pending", current_phase |-> NULL, iteration |-> FirstIteration,
     started_at |-> NULL, completed_at |-> NULL, error_message |-> NULL,
     result_summary |-> NoSummary]

ExecCols == {"status", "current_phase", "iteration", "started_at", "completed_at",
             "error_message", "result_summary"}

\* AgentOutput(...) as built at the top of each _run_*_phase
NewOutput(owner, phase, iteration) ==
    [owner |-> owner, committed |-> FALSE, phase |-> phase, iteration |-> iteration,
     status |-> "running", verdict |-> NULL, content |-> NULL, backend |-> NULL,
     completed_at |-> NULL, error_message |-> NULL,
     marker |-> FALSE, simulated |-> FALSE]

\* TaskActivity(...) as built by ActivityService.log_activity
NewActivity(owner, type) == [owner |-> owner, committed |-> FALSE, type |-> type]

\* mutant: the quick_development entry lacks the review phase
get_workflow_phases_QuickNoReview(wt) ==
    CASE wt = "development" -> <<"architecture", "development", "review">>
      [] wt = "quick_development" -> <<"development">>
      [] wt = "architecture_only" -> <<"architecture">>
      [] OTHER -> <<"development", "review">>

\* mutant: the architecture_only entry is missing and falls to the default
get_workflow_phases_NoArchitectureOnly(wt) ==
    CASE wt = "development" -> <<"architecture", "development", "review">>
      [] wt = "quick_development" -> <<"development", "review">>
      [] OTHER -> <<"development", "review">>

\* AgentContextBuilder.get_workflow_phases
get_workflow_phases(wt) ==
    CASE wt = "development" -> <<"architecture", "development", "review">>
      [] wt = "quick_development" -> <<"development", "review">>
      [] wt = "architecture_only" -> <<"architecture">>
      [] OTHER -> <<"development", "review">>

\* rows of agent_outputs visible to a session: committed ones and its own
VisibleOutputs(session) ==
    LET keep(o) == o.committed \/ o.owner = session IN SelectSeq(outputs, keep)

\* AgentContextBuilder._get_all_execution_outputs: visible rows ordered by created_at
get_all_execution_outputs(session) == VisibleOutputs(session)

\* mutant: the phase method writes to the first Output of its session
OwnLast_First(session) ==
    CHOOSE i \in 1..Len(outputs) :
        /\ outputs[i].owner = session
        /\ \A j \in 1..(i-1) : outputs[j].owner # session

\* index in `outputs` of the Output object a phase method of this session holds
\* (the row it inserted last)
OwnLast(session) ==
    CHOOSE i \in 1..Len(outputs) :
        /\ outputs[i].owner = session
        /\ \A j \in (i+1)..Len(outputs) : outputs[j].owner # session

HasOwn(session) == \E i \in 1..Len(outputs) : outputs[i].owner = session

\* ------------------------------------------------------ session mechanics

\* db.commit(): the session's flushed rows become visible to everybody
CommitRows(rows, session) ==
    [i \in 1..Len(rows) |->
        IF rows[i].owner = session THEN [rows[i] EXCEPT !.committed = TRUE] ELSE rows[i]]

\* db.rollback() (or a lost connection): the session's uncommitted rows vanish
RollbackRows(rows, session) ==
    LET keep(r) == r.committed \/ r.owner # session IN SelectSeq(rows, keep)

\* lock state after the session's transaction ends
Release(lock, session) == IF lock = session THEN "none" ELSE lock

\* mutant: an UPDATE never waits for another transaction
CanWrite_NoRowLock(lock, session) == TRUE

\* a session can UPDATE a row when no other open transaction has updated it
CanWrite(lock, session) == lock \in {"none", session}

\* the execution row after the session commits its UPDATEs of the columns in `dirty`
MergeExec(row, obj, dirty) ==
    LET pick(c) == IF c \in dirty THEN obj[c] ELSE row[c] IN
    [status |-> pick("status"), current_phase |-> pick("current_phase"),
     iteration |-> pick("iteration"), started_at |-> pick("started_at"),
     completed_at |-> pick("completed_at"), error_message |-> pick("error_message"),
     result_summary |-> pick("result_summary")]

\* ---------------------------------------------------------------- Init
\* state after create_execution has been committed:
\*   origin "api":     POST /tasks/{id}/agent/start created the execution and
\*                     spawned _run_workflow_background
\*   origin "service": AgentWorkflowService.start_*_phase created and started
\*                     it in one transaction; nothing runs the workflow
TypeOfService == {"architecture_only", "quick_development", "review_only"}

Created ==
    /\ origin \in {"api", "service"}
    /\ workflow_type \in (IF origin = "api" THEN WorkflowTypes ELSE TypeOfService)
    /\ dbExec = IF origin = "api" THEN NewExecution
                ELSE [NewExecution EXCEPT !.status = "running", !.started_at = "start_execution"]
    /\ dbTask = [agent_status |-> IF origin = "api" THEN "pending" ELSE "running",
                 current_execution |-> TRUE]
    /\ activities = IF origin = "api" THEN <<>>
                    ELSE << [owner |-> "service", committed |-> TRUE, type |-> "agent_started"],
                            [owner |-> "service", committed |-> TRUE, type |-> "workflow_phase_started"] >>
    /\ execLock = "none"
    /\ taskLock = "none"
    /\ rpc = IF origin = "api" THEN "spawned" ELSE "none"
    /\ rexec = NewExecution
    /\ rtask = NULL
    /\ ridx = 1
    /\ rreview = NULL
    /\ rdirty = {}
    /\ hpc = "idle"
    /\ hexec = NewExecution
    /\ cpc = "idle"
    /\ calls = [cancel |-> 0, start |-> 0, feedback |-> 0, restart |-> 0]
    /\ resp = [cancel |-> "none", start |-> "none", feedback |-> "none"]

\* the backends are up
Init ==
    /\ Created
    /\ backends = ServingOutcomes
    /\ outputs = <<>>
    /\ qresult = NoQuery
    /\ call = NoCall

\* ------------------------------------------------------ start_execution
\* HybridOrchestrator.start_execution on the committed row: the effect of a
\* successful call once its caller has committed
StartedExec(row) == [row EXCEPT !.status = "running", !.started_at = "start_execution"]

\* mutant: the check only guards against starting a running execution
StartAllowed_NotRunning(status) == status # "running"

\* the status check of start_execution
StartAllowed(status) == status = "pending"

\* _run_workflow_background line 107 and start_execution lines 202-207:
\* the runner loads the execution; start_execution checks the status of the
\* loaded object and raises ValueError unless it is pending; the except
\* branch of the runner then rolls back and the background task ends
RunnerStartBegin ==
    /\ rpc = "spawned"
    /\ rexec' = dbExec
    /\ rpc' = IF StartAllowed(dbExec.status) THEN "starting" ELSE "aborted"
    /\ UNCHANGED <<cfgVars, dbVars, rtask, ridx, rreview, rdirty,
                   hpc, hexec, cpc, calls, resp>>

\* start_execution lines 209-228 and the runner's commit (line 113)
RunnerStartCommit ==
    /\ rpc = "starting"
    /\ CanWrite(execLock, "runner") /\ CanWrite(taskLock, "runner")
    /\ dbExec' = StartedExec(dbExec)
    /\ dbTask' = [dbTask EXCEPT !.agent_status = "running"]
    /\ activities' = Append(activities, [NewActivity("runner", "agent_started") EXCEPT !.committed = TRUE])
    /\ rexec' = StartedExec(rexec)
    /\ rtask' = "running"
    /\ rpc' = "workflow"
    /\ UNCHANGED <<cfgVars, outputs, execLock, taskLock, ridx, rreview, rdirty,
                   hpc, hexec, cpc, calls, resp>>

\* start_execution called on the execution in a session of its own that the
\* caller commits (the way AgentWorkflowService.start_*_phase uses it, where
\* no other session acts between its statements)
StartCall ==
    /\ calls.start < MaxStartCalls
    /\ calls' = [calls EXCEPT !.start = @ + 1]
    /\ IF StartAllowed(dbExec.status)
       THEN /\ CanWrite(execLock, "start") /\ CanWrite(taskLock, "start")
            /\ dbExec' = StartedExec(dbExec)
            /\ dbTask' = [dbTask EXCEPT !.agent_status = "running"]
            /\ activities' = Append(activities, [NewActivity("start", "agent_started") EXCEPT !.committed = TRUE])
            /\ resp' = [resp EXCEPT !.start = "ok"]
       ELSE /\ resp' = [resp EXCEPT !.start = "error"]
            /\ UNCHANGED <<dbExec, dbTask, activities>>
    /\ UNCHANGED <<cfgVars, outputs, execLock, taskLock, runnerVars, hrfVars, cpc>>

\* ------------------------------------------------------ cancel_execution
\* mutant: a completed execution passes the check as well
CancelAllowed_AlsoCompleted(status) == status \in {"pending", "running", "completed"}

\* the status check of cancel_execution
CancelAllowed(status) == status \in {"pending", "running"}

\* mutant: completed_at is not set
CancelledExec_NoCompletedAt(row) == [row EXCEPT !.status = "cancelled"]

\* cancel_execution on the committed row
CancelledExec(row) == [row EXCEPT !.status = "cancelled", !.completed_at = "cancel_execution"]

\* DELETE /executions/{id}: cancel_execution loads the execution and checks
\* its status (lines 256-261); a rejected call raises and changes nothing
CancelBegin ==
    /\ cpc = "idle"
    /\ calls.cancel < MaxCancelCalls
    /\ calls' = [calls EXCEPT !.cancel = @ + 1]
    /\ IF CancelAllowed(dbExec.status)
       THEN /\ cpc' = "flush"
            /\ resp' = [resp EXCEPT !.cancel = "none"]
       ELSE /\ cpc' = "idle"
            /\ resp' = [resp EXCEPT !.cancel = "error"]
    /\ UNCHANGED <<cfgVars, dbVars, runnerVars, hrfVars>>

\* cancel_execution lines 263-279 and the endpoint's commit; the UPDATEs wait
\* while another transaction holds the rows
CancelCommit ==
    /\ cpc = "flush"
    /\ CanWrite(execLock, "cancel") /\ CanWrite(taskLock, "cancel")
    /\ dbExec' = CancelledExec(dbExec)
    /\ dbTask' = [dbTask EXCEPT !.agent_status = NULL]
    /\ activities' = Append(activities, [NewActivity("cancel", "agent_cancelled") EXCEPT !.committed = TRUE])
    /\ cpc' = "idle"
    /\ resp' = [resp EXCEPT !.cancel = "ok"]
    /\ UNCHANGED <<cfgVars, outputs, execLock, taskLock, runnerVars, hrfVars,
                   calls>>

\* ------------------------------------------------------ phase methods
\* top of _run_architecture_phase / _run_development_phase / _run_review_phase:
\* db.add(AgentOutput(status="running", iteration=execution.iteration)); flush
CreateOutput(session, phase, iteration) ==
    outputs' = Append(outputs, NewOutput(session, phase, iteration))

RAISE == "raise"

\* HybridOrchestrator._run_claude_cli_simple: RuntimeError when the CLI is
\* not found (line 615), exits non-zero (649) or times out (663)
run_claude_cli_simple(b) ==
    CASE b = "ok" -> "real"
      [] b = "malformed" -> "raw"
      [] b \in {"unavailable", "timeout", "error"} -> RAISE

\* mutant: an error of the PTY driver other than a timeout is re-raised
cli_execute_ErrorRaises(b) ==
    CASE b = "ok" -> "real"
      [] b = "malformed" -> "raw"
      [] b = "unavailable" -> "simulated"
      [] b = "timeout" -> "simulated"
      [] b = "error" -> RAISE

\* HybridOrchestrator._cli_execute: simulated execution when the CLI is not
\* found (1198-1200), on asyncio.TimeoutError from the PTY driver (1234-1238)
\* and on any other exception (1240-1242)
cli_execute(b) ==
    CASE b = "ok" -> "real"
      [] b = "malformed" -> "raw"
      [] b = "unavailable" -> "simulated"
      [] b = "timeout" -> "simulated"
      [] b = "error" -> "simulated"

\* HybridOrchestrator._api_call: simulated answer when the health check
\* fails (1041-1043) and on any exception of the provider call (1089-1091)
api_call(b) ==
    CASE b = "ok" -> "real"
      [] b = "malformed" -> "raw"
      [] b = "unavailable" -> "simulated"
      [] b = "timeout" -> "simulated"
      [] b = "error" -> "simulated"

\* what the try block of _run_<phase>_phase ends with: the kind of content it
\* stores, or RAISE
PhaseCall(phase, b) ==
    CASE b = "io_error" -> RAISE
      [] b # "io_error" /\ phase = "architecture" -> run_claude_cli_simple(b)
      [] b # "io_error" /\ phase = "development" -> cli_execute(b)
      [] b # "io_error" /\ phase = "review" -> api_call(b)

\* mutant: the simulated review carries no note
simulated_api_call_NoNote == [marker |-> FALSE, simulated |-> FALSE]

\* HybridOrchestrator._simulated_api_call: the text ends with the note "*Note:
\* This is a simulated response. ...*"; the result has no structured part
simulated_api_call == [marker |-> TRUE, simulated |-> FALSE]

\* HybridOrchestrator._simulated_cli_execute: the text ends with the note
\* "*Note: This is simulated execution. ...*" and structured is {"simulated": True}
simulated_cli_execute == [marker |-> TRUE, simulated |-> TRUE]

\* what tells a stored result from a real backend answer: `marker`, the note
\* in output_content, and `simulated`, the key of output_structured (kept by
\* the spread at _run_development_phase lines 883-884)
TagsOf(phase, content) ==
    CASE content # "simulated" -> [marker |-> FALSE, simulated |-> FALSE]
      [] content = "simulated" /\ phase = "development" -> simulated_cli_execute
      [] content = "simulated" /\ phase # "development" -> simulated_api_call

\* success path of a phase method: the Output object it holds ends completed;
\* a review stores the parsed review_data (its status is the verdict)
CompleteOutput(session, verdict, content, b) ==
    LET tags == TagsOf(outputs[OwnLast(session)].phase, content) IN
    outputs' = [outputs EXCEPT ![OwnLast(session)] =
                    [@ EXCEPT !.status = "completed", !.completed_at = "phase",
                              !.verdict = verdict, !.content = content, !.backend = b,
                              !.marker = tags.marker, !.simulated = tags.simulated]]

\* mutant: the except path forgets the error message
FailOutput_NoErrorMessage(session, b) ==
    outputs' = [outputs EXCEPT ![OwnLast(session)] =
                    [@ EXCEPT !.status = "failed", !.completed_at = "phase", !.backend = b]]

\* except path of a phase method: the Output ends failed, the error is re-raised
FailOutput(session, b) ==
    outputs' = [outputs EXCEPT ![OwnLast(session)] =
                    [@ EXCEPT !.status = "failed", !.completed_at = "phase",
                              !.error_message = "phase_error", !.backend = b]]

\* HybridOrchestrator._parse_review_result: the JSON of the fenced block when
\* there is one that parses (the simulated review says APPROVED), else the
\* default dictionary, whose status is APPROVED (lines 2380-2387)
parse_review_result(content) ==
    CASE content = "real" -> Verdicts
      [] content = "simulated" -> {"APPROVED"}
      [] content = "raw" -> {"APPROVED"}

\* what a phase stores as output_structured.status: only a review has a
\* verdict; _parse_review_result reads it from the content, and the simulated
\* review content says APPROVED (_simulated_api_call)
VerdictsOf(phase, content) ==
    CASE content = RAISE -> {}
      [] content # RAISE /\ phase = "review" -> parse_review_result(content)
      [] content # RAISE /\ phase # "review" -> {"NONE"}

\* mutant: the first review Output is taken instead of the last
build_result_summary_FirstReview(session, iteration) ==
    LET outs == get_all_execution_outputs(session)
        reviews == {i \in 1..Len(outs) : outs[i].phase = "review" /\ outs[i].status = "completed"}
        final == CHOOSE i \in reviews : \A j \in reviews : i <= j
    IN [present |-> TRUE,
        phases_completed |-> Len(outs),
        iterations |-> iteration,
        review_status |-> IF reviews = {} THEN NULL ELSE outs[final].verdict]

\* HybridOrchestrator._build_result_summary, as computed in `session`
build_result_summary(session, iteration) ==
    LET outs == get_all_execution_outputs(session)
        reviews == {i \in 1..Len(outs) : outs[i].phase = "review" /\ outs[i].status = "completed"}
        final == CHOOSE i \in reviews : \A j \in reviews : j <= i
    IN [present |-> TRUE,
        phases_completed |-> Len(outs),
        iterations |-> iteration,
        review_status |-> IF reviews = {} THEN NULL ELSE outs[final].verdict]

\* AgentContextBuilder._get_phase_output(db, execution_id, phase) without an
\* iteration: WHERE phase = :phase AND status = 'completed' ORDER BY iteration
\* DESC LIMIT 1.  The ORDER BY names no second key, so among the rows of the
\* highest iteration the database returns any one.  The result is the set of
\* positions (in the session's created_at order) the call can return; 0 is None.
get_phase_output(session, phase) ==
    LET outs == VisibleOutputs(session)
        match == {i \in 1..Len(outs) : outs[i].phase = phase /\ outs[i].status = "completed"}
        top == {i \in match : \A j \in match : outs[j].iteration <= outs[i].iteration}
    IN IF match = {} THEN {0} ELSE top

\* HybridOrchestrator.get_execution_status called in `session`: the execution
\* row and its Outputs as that session's SELECT sees them
get_execution_status(session) ==
    LET outs == VisibleOutputs(session) IN
    [status |-> dbExec.status, current_phase |-> dbExec.current_phase,
     iteration |-> dbExec.iteration, error_message |-> dbExec.error_message,
     outputs |-> [i \in 1..Len(outs) |->
                    [phase |-> outs[i].phase, iteration |-> outs[i].iteration,
                     status |-> outs[i].status]]]

\* ------------------------------------------------------ execute_workflow
phases == get_workflow_phases(workflow_type)

\* execute_workflow lines 384-385: the review asks for changes and an iteration remains
FeedbackRerun(review_status, iteration) ==
    review_status = "CHANGES_REQUESTED" /\ iteration < MaxIterations

\* the phase whose phase method the runner is in
RunnerPhase ==
    CASE rpc \in {"phase_create", "phase_exec"} -> phases[ridx]
      [] rpc \in {"fb_dev_create", "fb_dev_exec"} -> "development"
      [] rpc \in {"fb_rev_create", "fb_rev_exec"} -> "review"
      [] OTHER -> NULL

\* position after the body of the for loop over the phases has run for phases[ridx]
AfterPhase == IF ridx + 1 <= Len(phases) THEN "workflow" ELSE "finalize"

\* for phase in phases: lines 338-365 (current_phase, task mirror, flush, phase_start activity)
RunnerPhaseBegin ==
    /\ rpc = "workflow"
    /\ CanWrite(execLock, "runner") /\ CanWrite(taskLock, "runner")
    /\ rexec' = [rexec EXCEPT !.current_phase = phases[ridx]]
    /\ rtask' = phases[ridx]
    /\ rdirty' = rdirty \cup {"current_phase"}
    /\ execLock' = "runner"
    /\ taskLock' = "runner"
    /\ activities' = Append(activities, NewActivity("runner", "phase_start"))
    /\ rpc' = "phase_create"
    /\ UNCHANGED <<cfgVars, dbExec, dbTask, outputs, ridx, rreview,
                   hrfVars, cpc, calls, resp>>

\* the runner enters a phase method and inserts its Output
RunnerCreateOutput ==
    /\ rpc \in {"phase_create", "fb_dev_create", "fb_rev_create"}
    /\ CreateOutput("runner", RunnerPhase, rexec.iteration)
    /\ rpc' = CASE rpc = "phase_create" -> "phase_exec"
                [] rpc = "fb_dev_create" -> "fb_dev_exec"
                [] rpc = "fb_rev_create" -> "fb_rev_exec"
    /\ UNCHANGED <<cfgVars, dbExec, dbTask, activities, execLock, taskLock,
                   rexec, rtask, ridx, rreview, rdirty, hrfVars, cpc, calls, resp>>

\* a phase method of the runner returns; after the review of the for loop the
\* feedback decision of lines 384-385 is taken, after the re-run review it is not
RunnerPhaseOk ==
    /\ rpc \in {"phase_exec", "fb_dev_exec", "fb_rev_exec"}
    /\ \E b \in backends : \E v \in VerdictsOf(RunnerPhase, PhaseCall(RunnerPhase, b)) :
        /\ PhaseCall(RunnerPhase, b) # RAISE
        /\ CompleteOutput("runner", v, PhaseCall(RunnerPhase, b), b)
        /\ rreview' = IF RunnerPhase = "review" THEN v ELSE rreview
        /\ rpc' = CASE rpc = "phase_exec" ->
                         IF RunnerPhase = "review" /\ FeedbackRerun(v, rexec.iteration)
                         THEN "fb_incr" ELSE AfterPhase
                    [] rpc = "fb_dev_exec" -> "fb_rev_create"
                    [] rpc = "fb_rev_exec" -> AfterPhase
        /\ ridx' = IF rpc' \in {"workflow", "finalize"} THEN ridx + 1 ELSE ridx
    /\ UNCHANGED <<cfgVars, dbExec, dbTask, activities, execLock, taskLock,
                   rexec, rtask, rdirty, hrfVars, cpc, calls, resp>>

\* a phase method of the runner raises
RunnerPhaseFail ==
    /\ rpc \in {"phase_exec", "fb_dev_exec", "fb_rev_exec"}
    /\ \E b \in backends :
        /\ PhaseCall(RunnerPhase, b) = RAISE
        /\ FailOutput("runner", b)
    /\ rpc' = "failing"
    /\ UNCHANGED <<cfgVars, dbExec, dbTask, activities, execLock, taskLock,
                   rexec, rtask, ridx, rreview, rdirty, hrfVars, cpc, calls, resp>>

\* lines 386-387: execution.iteration += 1; flush
RunnerFeedbackIncrement ==
    /\ rpc = "fb_incr"
    /\ rexec' = [rexec EXCEPT !.iteration = @ + 1]
    /\ rdirty' = rdirty \cup {"iteration"}
    /\ rpc' = "fb_dev_create"
    /\ UNCHANGED <<cfgVars, dbVars, rtask, ridx, rreview,
                   hrfVars, cpc, calls, resp>>

\* lines 408-421: status completed, result summary, task mirror, flush, activity
RunnerFinalize ==
    /\ rpc = "finalize"
    /\ CanWrite(execLock, "runner") /\ CanWrite(taskLock, "runner")
    /\ rexec' = [rexec EXCEPT !.status = "completed", !.completed_at = "execute_workflow",
                              !.result_summary = build_result_summary("runner", rexec.iteration)]
    /\ rtask' = "completed"
    /\ rdirty' = rdirty \cup {"status", "completed_at", "result_summary"}
    /\ execLock' = "runner"
    /\ taskLock' = "runner"
    /\ activities' = Append(activities, NewActivity("runner", "workflow_complete"))
    /\ rpc' = "returned"
    /\ UNCHANGED <<cfgVars, dbExec, dbTask, outputs, ridx, rreview,
                   hrfVars, cpc, calls, resp>>

\* lines 442-456: status failed, error message, task mirror, flush, activity
RunnerFail ==
    /\ rpc = "failing"
    /\ rexec' = [rexec EXCEPT !.status = "failed", !.error_message = "phase_error",
                              !.completed_at = "execute_workflow"]
    /\ rtask' = "failed"
    /\ rdirty' = rdirty \cup {"status", "error_message", "completed_at"}
    /\ activities' = Append(activities, NewActivity("runner", "workflow_failed"))
    /\ rpc' = "raised"
    /\ UNCHANGED <<cfgVars, dbExec, dbTask, outputs, execLock, taskLock,
                   ridx, rreview, hrfVars, cpc, calls, resp>>

\* _run_workflow_background line 116: commit after run_workflow returned
RunnerCommit ==
    /\ rpc = "returned"
    /\ dbExec' = MergeExec(dbExec, rexec, rdirty)
    /\ dbTask' = IF taskLock = "runner" THEN [dbTask EXCEPT !.agent_status = rtask] ELSE dbTask
    /\ outputs' = CommitRows(outputs, "runner")
    /\ activities' = CommitRows(activities, "runner")
    /\ execLock' = Release(execLock, "runner")
    /\ taskLock' = Release(taskLock, "runner")
    /\ rdirty' = {}
    /\ rpc' = "done"
    /\ UNCHANGED <<cfgVars, rexec, rtask, ridx, rreview,
                   hrfVars, cpc, calls, resp>>

\* _run_workflow_background lines 118-120: the re-raised error is logged, rollback
RunnerRollback ==
    /\ rpc = "raised"
    /\ outputs' = RollbackRows(outputs, "runner")
    /\ activities' = RollbackRows(activities, "runner")
    /\ execLock' = Release(execLock, "runner")
    /\ taskLock' = Release(taskLock, "runner")
    /\ rdirty' = {}
    /\ rpc' = "aborted"
    /\ UNCHANGED <<cfgVars, dbExec, dbTask, rexec, rtask, ridx, rreview,
                   hrfVars, cpc, calls, resp>>

\* ------------------------------------------------ handle_review_feedback
\* mutant: feedback is taken for a failed execution as well
Reviewable_AlsoFailed(status) == status \in {"running", "completed", "failed"}

\* lines 284-287: the execution must be running or completed
Reviewable(status) == status \in {"running", "completed"}

\* mutant: off by one, a rejection is accepted at iteration = max_iterations
IterationsRemain_OffByOne(iteration) == iteration <= MaxIterations

\* lines 322-325: a rejection needs a remaining iteration
IterationsRemain(iteration) == iteration < MaxIterations

\* AgentWorkflowService.handle_review_feedback up to its first write:
\* load the execution, check the state, branch on `approved`
HrfBegin ==
    /\ hpc = "idle"
    /\ calls.feedback < MaxFeedbackCalls
    /\ calls' = [calls EXCEPT !.feedback = @ + 1]
    /\ \E approved \in BOOLEAN :
        CASE ~Reviewable(dbExec.status) ->
                \* ValueError: not in a reviewable state
                /\ hpc' = "idle"
                /\ hexec' = hexec
                /\ resp' = [resp EXCEPT !.feedback = "error"]
          [] Reviewable(dbExec.status) /\ approved /\ dbExec.status = "completed" ->
                \* nothing to write; commit
                /\ hpc' = "idle"
                /\ hexec' = hexec
                /\ resp' = [resp EXCEPT !.feedback = "ok"]
          [] Reviewable(dbExec.status) /\ approved /\ dbExec.status # "completed" ->
                /\ hpc' = "approve_flush"
                /\ hexec' = [dbExec EXCEPT !.status = "completed",
                                           !.completed_at = "handle_review_feedback"]
                /\ resp' = [resp EXCEPT !.feedback = "none"]
          [] Reviewable(dbExec.status) /\ ~approved /\ ~IterationsRemain(dbExec.iteration) ->
                \* ValueError: reached max iterations
                /\ hpc' = "idle"
                /\ hexec' = hexec
                /\ resp' = [resp EXCEPT !.feedback = "error"]
          [] Reviewable(dbExec.status) /\ ~approved /\ IterationsRemain(dbExec.iteration) ->
                \* line 333: execution.iteration += 1
                /\ hpc' = "iter_flush"
                /\ hexec' = [dbExec EXCEPT !.iteration = @ + 1]
                /\ resp' = [resp EXCEPT !.feedback = "none"]
    /\ UNCHANGED <<cfgVars, dbVars, runnerVars, cpc>>

\* approved: lines 299-317, the UPDATEs of execution and task, the
\* workflow_approved activity and the commit
HrfApproveCommit ==
    /\ hpc = "approve_flush"
    /\ CanWrite(execLock, "hrf") /\ CanWrite(taskLock, "hrf")
    /\ dbExec' = MergeExec(dbExec, hexec, {"status", "completed_at"})
    /\ dbTask' = [dbTask EXCEPT !.agent_status = "completed"]
    /\ activities' = Append(activities, [NewActivity("hrf", "workflow_approved") EXCEPT !.committed = TRUE])
    /\ hpc' = "idle"
    /\ hexec' = NewExecution
    /\ resp' = [resp EXCEPT !.feedback = "ok"]
    /\ UNCHANGED <<cfgVars, outputs, execLock, taskLock, runnerVars,
                   cpc, calls>>

\* rejected: the first query of build_development_context flushes the
\* incremented iteration (UPDATE of the execution row)
HrfFlushIteration ==
    /\ hpc = "iter_flush"
    /\ CanWrite(execLock, "hrf")
    /\ execLock' = "hrf"
    /\ hpc' = "dev_create"
    /\ UNCHANGED <<cfgVars, dbExec, dbTask, outputs, activities, taskLock,
                   runnerVars, hexec, cpc, calls, resp>>

\* the phase _run_agent_phase is running for handle_review_feedback
HrfPhase == IF hpc \in {"dev_create", "dev_exec"} THEN "development" ELSE "review"

\* _run_agent_phase enters the phase method, which inserts its Output
HrfCreateOutput ==
    /\ hpc \in {"dev_create", "rev_create"}
    /\ CreateOutput("hrf", HrfPhase, hexec.iteration)
    /\ hpc' = IF hpc = "dev_create" THEN "dev_exec" ELSE "rev_exec"
    /\ UNCHANGED <<cfgVars, dbExec, dbTask, activities, execLock, taskLock,
                   runnerVars, hexec, cpc, calls, resp>>

\* the phase method returns
HrfPhaseOk ==
    /\ hpc \in {"dev_exec", "rev_exec"}
    /\ \E b \in backends : \E v \in VerdictsOf(HrfPhase, PhaseCall(HrfPhase, b)) :
        /\ PhaseCall(HrfPhase, b) # RAISE
        /\ CompleteOutput("hrf", v, PhaseCall(HrfPhase, b), b)
    /\ hpc' = IF hpc = "dev_exec" THEN "rev_create" ELSE "commit"
    /\ UNCHANGED <<cfgVars, dbExec, dbTask, activities, execLock, taskLock,
                   runnerVars, hexec, cpc, calls, resp>>

\* the phase method raises; handle_review_feedback does not catch it
HrfPhaseFail ==
    /\ hpc \in {"dev_exec", "rev_exec"}
    /\ \E b \in backends :
        /\ PhaseCall(HrfPhase, b) = RAISE
        /\ FailOutput("hrf", b)
    /\ hpc' = "raised"
    /\ UNCHANGED <<cfgVars, dbExec, dbTask, activities, execLock, taskLock,
                   runnerVars, hexec, cpc, calls, resp>>

\* lines 357-370: workflow_feedback_iteration activity, commit
HrfCommit ==
    /\ hpc = "commit"
    /\ dbExec' = MergeExec(dbExec, hexec, {"iteration"})
    /\ outputs' = CommitRows(outputs, "hrf")
    /\ activities' = Append(activities, [NewActivity("hrf", "workflow_feedback_iteration") EXCEPT !.committed = TRUE])
    /\ execLock' = Release(execLock, "hrf")
    /\ hpc' = "idle"
    /\ hexec' = NewExecution
    /\ resp' = [resp EXCEPT !.feedback = "ok"]
    /\ UNCHANGED <<cfgVars, dbTask, taskLock, runnerVars, cpc, calls>>

\* the error leaves handle_review_feedback; its caller's session is rolled back
HrfRollback ==
    /\ hpc = "raised"
    /\ outputs' = RollbackRows(outputs, "hrf")
    /\ execLock' = Release(execLock, "hrf")
    /\ hpc' = "idle"
    /\ hexec' = NewExecution
    /\ resp' = [resp EXCEPT !.feedback = "error"]
    /\ UNCHANGED <<cfgVars, dbExec, dbTask, activities, taskLock, runnerVars,
                   cpc, calls>>

\* ------------------------------------------- restart and stale sweep
\* mutant: every running execution is swept, whatever its age
cleanup_stale_executions_AnyRunning(row, isStale) ==
    IF row.status = "running"
    THEN [row EXCEPT !.status = "failed", !.error_message = "stale",
                     !.completed_at = "cleanup_stale_executions"]
    ELSE row

\* main.cleanup_stale_executions: UPDATE ... WHERE status = 'running' AND
\* started_at < now - 1h
cleanup_stale_executions(row, isStale) ==
    IF row.status = "running" /\ row.started_at # NULL /\ isStale
    THEN [row EXCEPT !.status = "failed", !.error_message = "stale",
                     !.completed_at = "cleanup_stale_executions"]
    ELSE row

\* positions of a background runner that has ended: committed, rolled back,
\* killed by a restart; "none" when no runner was spawned
RunnerEnded == {"done", "aborted", "dead", "none"}

\* the backend process is restarted: every in-flight task dies with its open
\* transaction, then lifespan() runs cleanup_stale_executions before serving;
\* isStale: whether started_at is more than an hour before the restart
Restart ==
    /\ calls.restart < MaxRestarts
    /\ calls' = [calls EXCEPT !.restart = @ + 1]
    /\ outputs' = RollbackRows(RollbackRows(outputs, "runner"), "hrf")
    /\ activities' = RollbackRows(activities, "runner")
    /\ execLock' = "none"
    /\ taskLock' = "none"
    /\ rpc' = IF rpc \in RunnerEnded THEN rpc ELSE "dead"
    /\ rexec' = NewExecution
    /\ rtask' = NULL
    /\ ridx' = 1
    /\ rreview' = NULL
    /\ rdirty' = {}
    /\ hpc' = "idle"
    /\ hexec' = NewExecution
    /\ cpc' = "idle"
    /\ \E isStale \in BOOLEAN : dbExec' = cleanup_stale_executions(dbExec, isStale)
    /\ UNCHANGED <<cfgVars, dbTask, resp>>

\* ------------------------------------------------------------ behaviour
Next ==
    \/ RunnerStartBegin
    \/ RunnerStartCommit
    \/ StartCall
    \/ CancelBegin
    \/ CancelCommit
    \/ RunnerPhaseBegin
    \/ RunnerCreateOutput
    \/ RunnerPhaseOk
    \/ RunnerPhaseFail
    \/ RunnerFeedbackIncrement
    \/ RunnerFinalize
    \/ RunnerFail
    \/ RunnerCommit
    \/ RunnerRollback
    \/ HrfBegin
    \/ HrfApproveCommit
    \/ HrfFlushIteration
    \/ HrfCreateOutput
    \/ HrfPhaseOk
    \/ HrfPhaseFail
    \/ HrfCommit
    \/ HrfRollback
    \/ Restart

Spec == Init /\ [][Next]_vars

\* AgentWorkflowService.get_workflow_status, lines 407-411: the latest Output
\* of a phase is looked up in the request's session
GetWorkflowStatus ==
    /\ \E phase \in Phases : \E r \in get_phase_output("query", phase) :
          qresult' = [phase |-> phase, row |-> r]
    /\ UNCHANGED <<workflow_type, origin, backends, call, dbVars, runnerVars, hrfVars, cpc, calls, resp>>

\* a committed Output that has ended
FinishedOutput(phase, iteration, status) ==
    [NewOutput("runner", phase, iteration) EXCEPT
        !.committed = TRUE, !.status = status, !.completed_at = "phase",
        !.content = IF status = "completed" THEN "real" ELSE NULL,
        !.error_message = IF status = "failed" THEN "phase_error" ELSE NULL,
        !.backend = IF status = "completed" THEN "ok" ELSE "io_error"]

FinishedOutputs ==
    {FinishedOutput(p, n, st) : p \in Phases, n \in FirstIteration..MaxIterations,
                                st \in {"completed", "failed"}}

\* the latest-output query over any history of at most MaxQueryRows ended Outputs
InitQuery ==
    /\ Created
    /\ origin = "service"
    /\ workflow_type = "quick_development"
    /\ backends = ServingOutcomes
    /\ qresult = NoQuery
    /\ call = NoCall
    /\ \E n \in 0..MaxQueryRows : outputs \in [1..n -> FinishedOutputs]

SpecQuery == InitQuery /\ [][GetWorkflowStatus]_vars

\* ------------------------------------------------- helper functions
\* everything but the function under test stays as created
Idle ==
    /\ Created
    /\ origin = "service"
    /\ workflow_type = "quick_development"
    /\ backends = ServingOutcomes
    /\ outputs = <<>>
    /\ qresult = NoQuery

\* the function under test is called with the argument
Called(fn, arg) == call = [fn |-> fn, arg |-> arg, out |-> NULL, done |-> FALSE]

\* the function under test returns
Returns(fn, result) ==
    /\ call.fn = fn
    /\ ~call.done
    /\ call' = [call EXCEPT !.out = result, !.done = TRUE]
    /\ UNCHANGED <<workflow_type, origin, backends, qresult, dbVars, runnerVars, hrfVars,
                   cpc, calls, resp>>

\* a measured column without a value (None)
Missing == -1

RECURSIVE SumOf(_, _)
\* sum(f(o) or 0 for o in rows): a missing value counts as 0
SumOf(rows, col) ==
    IF rows = <<>> THEN 0
    ELSE (IF Head(rows)[col] = Missing THEN 0 ELSE Head(rows)[col]) + SumOf(Tail(rows), col)

RECURSIVE Extend(_)
\* all_files = []; for o in outputs: all_files.extend(o.files_created or [])
Extend(rows) ==
    IF rows = <<>> THEN <<>> ELSE Head(rows).files_created \o Extend(Tail(rows))

\* HybridOrchestrator._build_result_summary lines 2397-2401 and 2409-2413:
\* the totals over the Outputs of the execution
build_result_summary_totals(rows) ==
    [total_tokens |-> SumOf(rows, "tokens_used"),
     total_duration_ms |-> SumOf(rows, "duration_ms"),
     files_affected |-> Extend(rows)]

\* the measured columns of an Output: tokens_used and duration_ms may be None,
\* files_created is a list of paths (None counts as the empty list)
Paths == {"main.py", "REVIEW.md"}
FileLists == {<<>>, <<"main.py">>, <<"REVIEW.md">>, <<"main.py", "REVIEW.md">>}
MeasuredOutputs ==
    [tokens_used : {Missing, 1, 2}, duration_ms : {Missing, 1}, files_created : FileLists]

InitSummary ==
    /\ Idle
    /\ \E n \in 0..MaxSummaryRows : \E rows \in [1..n -> MeasuredOutputs] :
          Called("build_result_summary", rows)

BuildResultSummary ==
    Returns("build_result_summary", build_result_summary_totals(call.arg))

SpecSummary == InitSummary /\ [][BuildResultSummary]_vars

\* ----------------------------------------------- git change detection
\* the paths of the working directory
Files == 1..MaxFiles

\* what git knows of one path:
\*   "absent"           no such file
\*   "clean"            tracked, equal to HEAD
\*   "modified"         tracked, changed in the working tree only
\*   "staged"           changed (or added) in the index only
\*   "staged_modified"  changed in the index and again in the working tree
\*   "untracked"        in the working tree, not in the index
\*   "unindexed"        removed from the index (git rm --cached), file kept
GitStatuses == {"absent", "clean", "modified", "staged", "staged_modified",
                "untracked", "unindexed"}

\* git diff --name-only
git_diff(tree) == {f \in Files : tree[f] \in {"modified", "staged_modified"}}

\* git diff --name-only --cached
git_diff_cached(tree) == {f \in Files : tree[f] \in {"staged", "staged_modified", "unindexed"}}

\* git ls-files --others --exclude-standard
git_ls_files_others(tree) == {f \in Files : tree[f] \in {"untracked", "unindexed"}}

\* HybridOrchestrator._capture_git_state in a git repository: the three
\* lists, or only an error entry when a git command raises (lines 2166-2169)
capture_git_state(tree, raises) ==
    IF raises
    THEN [error |-> TRUE, modified_files |-> {}, staged_files |-> {}, untracked_files |-> {}]
    ELSE [error |-> FALSE,
          modified_files |-> git_diff(tree),
          staged_files |-> git_diff_cached(tree),
          untracked_files |-> git_ls_files_others(tree)]

\* HybridOrchestrator._get_git_changed_files lines 2190-2255 for a pre_state
\* of a git repository; pre_state.get(key, []) is empty for a snapshot that
\* holds only the error entry.  The lists are sorted and hold no path twice,
\* so they are given as sets.
get_git_changed_files(tree, pre_state) ==
    LET current_modified == git_diff(tree)
        current_staged == git_diff_cached(tree)
        current_untracked == git_ls_files_others(tree)
        pre_modified == pre_state.modified_files
        pre_staged == pre_state.staged_files
        pre_untracked == pre_state.untracked_files
        created == current_untracked \ pre_untracked
        all_current_changes == current_modified \cup current_staged
        all_pre_changes == pre_modified \cup pre_staged
        modified == (all_current_changes \ all_pre_changes) \ current_untracked
    IN [created |-> created, modified |-> modified,
        all_changed |-> created \cup modified]

\* the working directory before and after the developer agent ran; the
\* agent has a shell, so any status can follow any other
InitChanges ==
    /\ Idle
    /\ \E pre \in [Files -> GitStatuses] : \E post \in [Files -> GitStatuses] :
       \E raises \in BOOLEAN :
          Called("get_git_changed_files", [pre |-> pre, post |-> post, raises |-> raises])

\* _run_development_phase line 822 (before the agent) and line 846 (after it)
GetGitChangedFiles ==
    Returns("get_git_changed_files",
            get_git_changed_files(call.arg.post, capture_git_state(call.arg.pre, call.arg.raises)))

SpecChanges == InitChanges /\ [][GetGitChangedFiles]_vars

\* ------------------------------------------------------ branch checkout
\* branch.source of the task's info.json
BranchSources == {"task_text", "llm_suggestion", "default"}

\* where the named branch is when _checkout_branch is called: HEAD is on it,
\* it is a local branch, it is on the remote only, or it is nowhere
BranchPlaces == {"current", "local", "remote", "missing"}

\* the git commands _checkout_branch runs, in the order of the code
GitCommands == {"rev_parse", "fetch", "checkout", "checkout_remote",
                "checkout_default", "create"}

\* what may befall a git command besides its regular result: "ok" nothing,
\* "fail" a non-zero exit (dirty tree, lock file, ...), "raise" an exception
\* of subprocess.run (TimeoutExpired, OSError)
GitFaults == {"ok", "fail", "raise"}

\* outcome of a command: its fault if any, else its regular result
Effective(git, cmd, regular) == IF git[cmd] # "ok" THEN git[cmd] ELSE regular

\* mutant: a missing branch is created whatever its source
MayCreate_Always(source, create_if_missing) == TRUE

\* _checkout_branch line 2001
MayCreate(source, create_if_missing) == source = "task_text" /\ create_if_missing

\* HybridOrchestrator._checkout_branch.  Besides the fields success, created
\* and error (set or not) of the returned dict, the result tells what the
\* calls did to the repository: `head`, the branch HEAD is on afterwards
\* ("previous" the one it was on, "target" the named one, "default"), and
\* `new_branch`, whether a local branch was made and from what.
checkout_branch(source, create_if_missing, place, git) ==
    LET head0 == IF place = "current" THEN "target" ELSE "previous"
        result == [success |-> FALSE, created |-> FALSE, error |-> FALSE,
                   head |-> head0, new_branch |-> "none"]
        \* except subprocess.TimeoutExpired / except Exception (lines 2033-2038)
        caught(r) == [r EXCEPT !.error = TRUE]
        rev_parse == Effective(git, "rev_parse", "ok")
        fetch == Effective(git, "fetch", "ok")
        checkout == Effective(git, "checkout",
                              IF place \in {"current", "local", "remote"} THEN "ok" ELSE "fail")
        checkout_remote == Effective(git, "checkout_remote",
                                     IF place = "remote" THEN "ok" ELSE "fail")
        checkout_default == Effective(git, "checkout_default", "ok")
        create == Effective(git, "create",
                            IF place \in {"remote", "missing"} THEN "ok" ELSE "fail")
        head1 == IF checkout_default = "ok" THEN "default" ELSE head0
    IN CASE rev_parse = "raise" -> caught(result)
         [] rev_parse = "ok" /\ place = "current" -> [result EXCEPT !.success = TRUE]
         [] OTHER ->
            CASE fetch = "raise" -> caught(result)
              [] OTHER ->
                 CASE checkout = "raise" -> caught(result)
                   [] checkout = "ok" ->
                        [result EXCEPT !.success = TRUE, !.head = "target",
                                       !.new_branch = IF place = "remote" THEN "from_remote" ELSE "none"]
                   [] checkout = "fail" ->
                        CASE checkout_remote = "raise" -> caught(result)
                          [] checkout_remote = "ok" ->
                               [result EXCEPT !.success = TRUE, !.head = "target",
                                              !.new_branch = "from_remote"]
                          [] checkout_remote = "fail" ->
                               IF MayCreate(source, create_if_missing)
                               THEN CASE checkout_default = "raise" -> caught(result)
                                      [] checkout_default # "raise" /\ create = "raise" ->
                                           caught([result EXCEPT !.head = head1])
                                      [] checkout_default # "raise" /\ create = "ok" ->
                                           [result EXCEPT !.success = TRUE, !.created = TRUE,
                                                          !.head = "target",
                                                          !.new_branch = IF checkout_default = "ok"
                                                                         THEN "from_default"
                                                                         ELSE "from_previous"]
                                      [] checkout_default # "raise" /\ create = "fail" ->
                                           [result EXCEPT !.error = TRUE, !.head = head1]
                               ELSE [result EXCEPT !.error = TRUE]

\* _run_development_phase lines 806-813 for a task whose info.json names a branch
InitCheckout ==
    /\ Idle
    /\ \E source \in BranchSources : \E place \in BranchPlaces :
       \E git \in [GitCommands -> GitFaults] :
          Called("checkout_branch", [source |-> source, place |-> place, git |-> git])

\* line 812: create_if_missing=(branch_source == "task_text")
CheckoutBranch ==
    Returns("checkout_branch",
            checkout_branch(call.arg.source, call.arg.source = "task_text",
                            call.arg.place, call.arg.git))

SpecCheckout == InitCheckout /\ [][CheckoutBranch]_vars

\* ------------------------------------------- development phase and git
\* what `git commit` meets: "ok" a commit is made, "nothing" non-zero exit
\* with "nothing to commit", "fail" another non-zero exit (hook, identity),
\* "raise" an exception of subprocess.run
CommitOutcomes == {"ok", "nothing", "fail", "raise"}

NoCommit == [raised |-> FALSE, present |-> FALSE, committed |-> FALSE, reason |-> NULL]

\* mutant: no try around the git calls, an exception leaves the function
auto_commit_changes_NoTry(changed, commit) ==
    CASE ~changed -> [NoCommit EXCEPT !.present = TRUE, !.reason = "no files changed"]
      [] changed /\ commit = "ok" -> [NoCommit EXCEPT !.present = TRUE, !.committed = TRUE]
      [] changed /\ commit = "nothing" -> [NoCommit EXCEPT !.present = TRUE, !.reason = "nothing to commit"]
      [] changed /\ commit = "fail" -> [NoCommit EXCEPT !.present = TRUE, !.reason = "stderr"]
      [] changed /\ commit = "raise" -> [NoCommit EXCEPT !.raised = TRUE]

\* HybridOrchestrator._auto_commit_changes for a git repository: `changed`
\* says whether all_changed is non-empty; a failing `git add` is only logged
auto_commit_changes(changed, commit) ==
    CASE ~changed -> [NoCommit EXCEPT !.present = TRUE, !.reason = "no files changed"]
      [] changed /\ commit = "ok" -> [NoCommit EXCEPT !.present = TRUE, !.committed = TRUE]
      [] changed /\ commit = "nothing" -> [NoCommit EXCEPT !.present = TRUE, !.reason = "nothing to commit"]
      [] changed /\ commit = "fail" -> [NoCommit EXCEPT !.present = TRUE, !.reason = "stderr"]
      [] changed /\ commit = "raise" -> [NoCommit EXCEPT !.present = TRUE, !.reason = "exception"]

\* every git command of _checkout_branch meeting the same fault
Uniform(fault) == [cmd \in GitCommands |-> fault]

\* what _get_git_changed_files reports to _run_development_phase: the
\* directory is no repository, nothing changed, something changed, or the
\* git commands raised (error entry)
ChangeReports == {"not_repo", "none", "some", "error"}

\* the try block of HybridOrchestrator._run_development_phase (lines 792-903)
\* and its except branch (905-910), as the Output it leaves:
\*   d.source   branch.source of info.json, or NULL when it names no branch
\*   d.place, d.fault   where that branch is and what the git commands meet
\*   d.b        what the CLI call meets
\*   d.report   what _get_git_changed_files reports
\*   d.commit   what git commit meets
\*   d.raises   another statement of the try block raises
run_development_phase(d) ==
    LET checkout_result ==
            IF d.source = NULL THEN [success |-> NULL, created |-> FALSE]
            ELSE checkout_branch(d.source, d.source = "task_text", d.place, Uniform(d.fault))
        content == cli_execute(d.b)
        commit_result ==
            IF d.report \in {"none", "some"}
            THEN auto_commit_changes(d.report = "some", d.commit)
            ELSE NoCommit
        failed == [status |-> "failed", content |-> NULL, files |-> FALSE,
                   checkout_success |-> NULL, created |-> FALSE, commit |-> NoCommit]
    IN IF d.raises \/ commit_result.raised
       THEN failed
       ELSE [status |-> "completed",
             content |-> content,
             files |-> d.report # "none",
             checkout_success |-> checkout_result.success,
             created |-> checkout_result.created,
             commit |-> commit_result]

InitDevelopment ==
    /\ Idle
    /\ \E source \in BranchSources \cup {NULL} : \E place \in BranchPlaces :
       \E fault \in GitFaults : \E b \in BackendOutcomes \ {"io_error"} :
       \E report \in ChangeReports : \E commit \in CommitOutcomes :
       \E raises \in BOOLEAN :
          Called("run_development_phase",
                 [source |-> source, place |-> place, fault |-> fault, b |-> b,
                  report |-> report, commit |-> commit, raises |-> raises])

RunDevelopmentPhase ==
    Returns("run_development_phase", run_development_phase(call.arg))

SpecDevelopment == InitDevelopment /\ [][RunDevelopmentPhase]_vars

\* ------------------------------------------------ PTY stream parsing
\* The output of the CLI as a sequence of pieces.  NL is the newline; the
\* other pieces are stretches of text without a newline:
\*   "R1" "R2"  the two halves of {"type":"result","result":"ok"}
\*   "S"        {"type":"system"}, a record without text
\*   "T"        an assistant record with one text block "hello"
\*   "x"        text that is no JSON
NL == "\n"
Pieces == {"R1", "R2", "S", "T", "x", NL}

NoEvent == [type |-> NULL, text |-> ""]

\* parse_stream_json_line (lines 1323-1331): json.loads of the stripped
\* line, None for an empty line and for text that does not parse
parse_stream_json_line(line) ==
    CASE line = <<"R1", "R2">> -> [type |-> "result", text |-> "ok"]
      [] line = <<"S">> -> [type |-> "system", text |-> ""]
      [] line = <<"T">> -> [type |-> "assistant", text |-> "hello"]
      [] OTHER -> NoEvent

\* lines 1373-1392 for one complete line: the event is appended, and its
\* text, when it has one, is appended to text_content_parts
ProcessLine(st, line) ==
    LET event == parse_stream_json_line(line) IN
    IF event = NoEvent THEN st
    ELSE [st EXCEPT !.structured_events = Append(@, event),
                    !.text_content_parts = IF event.text = "" THEN @ ELSE Append(@, event.text)]

\* process_pty_output (lines 1351-1392) on one chunk: json_buffer += text;
\* every line ended by a newline is processed, the rest stays in json_buffer
RECURSIVE process_pty_output(_, _)
process_pty_output(st, data) ==
    IF data = <<>> THEN st
    ELSE IF Head(data) = NL
         THEN process_pty_output([ProcessLine(st, st.json_buffer) EXCEPT !.json_buffer = <<>>],
                                 Tail(data))
         ELSE process_pty_output([st EXCEPT !.json_buffer = Append(@, Head(data))], Tail(data))

\* str.strip() of the raw output: newlines at both ends are dropped
RECURSIVE strip(_)
strip(text) ==
    IF text = <<>> THEN <<>>
    ELSE IF Head(text) = NL THEN strip(Tail(text))
    ELSE IF text[Len(text)] = NL THEN strip(SubSeq(text, 1, Len(text) - 1))
    ELSE text

RECURSIVE ProcessChunks(_, _)
ProcessChunks(st, output_chunks) ==
    IF output_chunks = <<>> THEN st
    ELSE ProcessChunks(process_pty_output(st, Head(output_chunks)), Tail(output_chunks))

RECURSIVE Join(_)
Join(output_chunks) ==
    IF output_chunks = <<>> THEN <<>> ELSE Head(output_chunks) \o Join(Tail(output_chunks))

\* _run_cli_with_streaming_pty lines 1478-1502, after the reads: the chunks
\* are processed, what is left in json_buffer is parsed once more (its
\* event is appended, its text is not), and without any text the content
\* is the raw output
run_cli_with_streaming_pty(output_chunks) ==
    LET st == ProcessChunks([json_buffer |-> <<>>, structured_events |-> <<>>,
                             text_content_parts |-> <<>>], output_chunks)
        rest == parse_stream_json_line(st.json_buffer)
        structured_events == IF rest = NoEvent THEN st.structured_events
                             ELSE Append(st.structured_events, rest)
        full_content == IF st.text_content_parts = <<>>
                        THEN strip(Join(output_chunks))
                        ELSE st.text_content_parts
    IN [content |-> full_content, structured_events |-> structured_events]

\* the reads of os.read(master_fd, 4096): the stream cut at any place, no
\* read returning nothing
ChunksOf(stream, cut) ==
    IF cut = 0 \/ cut = Len(stream)
    THEN IF stream = <<>> THEN <<>> ELSE <<stream>>
    ELSE <<SubSeq(stream, 1, cut), SubSeq(stream, cut + 1, Len(stream))>>

InitPty ==
    /\ Idle
    /\ \E n \in 0..MaxStream : \E stream \in [1..n -> Pieces] : \E cut \in 0..n :
          Called("run_cli_with_streaming_pty", ChunksOf(stream, cut))

RunCliWithStreamingPty ==
    Returns("run_cli_with_streaming_pty", run_cli_with_streaming_pty(call.arg))

SpecPty == InitPty /\ [][RunCliWithStreamingPty]_vars

\* ------------------------------------------------ milestone cadence
\* time.time() in units of half a second
milestone_interval == 5

\* what a read can add to output_buffer, as the patterns it contains
Words == {"read", "write", "test", "other"}

\* how much later than the previous pass of the loop a pass can be
Delays == {0, 1, 3, 5}

\* HybridOrchestrator._detect_milestone on a buffer holding `words`
detect_milestone(words) ==
    CASE "read" \in words -> "Reading files..."
      [] "read" \notin words /\ ({"write", "created"} \cap words) # {} -> "Writing code..."
      [] ({"read", "write", "created"} \cap words) = {} /\ "edit" \in words -> "Editing files..."
      [] ({"read", "write", "created", "edit"} \cap words) = {} /\ "test" \in words -> "Running tests..."
      [] ({"read", "write", "created", "edit", "test"} \cap words) = {}
            /\ ({"install", "npm", "pip"} \cap words) # {} -> "Installing dependencies..."
      [] ({"read", "write", "created", "edit", "test", "install", "npm", "pip"} \cap words) = {}
            /\ "think" \in words -> "Thinking..."
      [] OTHER -> "Working..."

\* mutant: the label is sent at every tick
MilestoneChanged_Always(detected_milestone, last_milestone) == TRUE

\* line 1448: only send if milestone changed
MilestoneChanged(detected_milestone, last_milestone) == detected_milestone # last_milestone

\* the locals of run_pty_sync when the loop starts (lines 1316-1320, 1420-1421);
\* `reads` counts the passes of the loop, `sent_at` keeps for each entry of
\* milestone_updates the current_time at which it was appended
InitMilestone ==
    /\ Idle
    /\ call = [fn |-> "run_pty_sync", arg |-> NULL, done |-> FALSE,
               out |-> [now |-> 0, reads |-> 0, output_buffer |-> {},
                        last_milestone_time |-> 0, last_milestone |-> NULL,
                        milestone_updates |-> <<>>, sent_at |-> <<>>]]

Loop(st) ==
    /\ call' = [call EXCEPT !.out = st]
    /\ UNCHANGED <<workflow_type, origin, backends, qresult, dbVars, runnerVars, hrfVars,
                   cpc, calls, resp>>

\* one pass of the loop in which os.read returns data (lines 1432-1457)
PtyRead ==
    /\ call.fn = "run_pty_sync" /\ ~call.done
    /\ call.out.reads < MaxReads
    /\ \E delay \in Delays : \E word \in Words :
        LET st == call.out
            current_time == st.now + delay
            output_buffer == st.output_buffer \cup {word}
            detected_milestone == detect_milestone(output_buffer)
            read == [st EXCEPT !.now = current_time, !.reads = @ + 1]
        IN IF current_time - st.last_milestone_time >= milestone_interval
           THEN IF MilestoneChanged(detected_milestone, st.last_milestone)
                THEN Loop([read EXCEPT !.milestone_updates = Append(@, detected_milestone),
                                       !.sent_at = Append(@, current_time),
                                       !.last_milestone = detected_milestone,
                                       !.last_milestone_time = current_time,
                                       !.output_buffer = {}])
                ELSE Loop([read EXCEPT !.last_milestone_time = current_time,
                                       !.output_buffer = {}])
           ELSE Loop([read EXCEPT !.output_buffer = output_buffer])

\* one pass in which select times out: nothing to read (line 1431)
PtyWait ==
    /\ call.fn = "run_pty_sync" /\ ~call.done
    /\ call.out.reads < MaxReads
    /\ \E delay \in Delays \ {0} :
          Loop([call.out EXCEPT !.now = @ + delay, !.reads = @ + 1])

\* os.read returns nothing or fails with EIO: the loop ends (lines 1434-1435, 1460-1462)
PtyEof ==
    /\ call.fn = "run_pty_sync" /\ ~call.done
    /\ call' = [call EXCEPT !.done = TRUE]
    /\ UNCHANGED <<workflow_type, origin, backends, qresult, dbVars, runnerVars, hrfVars,
                   cpc, calls, resp>>

SpecMilestone == InitMilestone /\ [][PtyRead \/ PtyWait \/ PtyEof]_vars

\* ------------------------------------------------------ provider factory
\* a provider configuration dict, as far as the factory reads it; NULL is a
\* missing key.  "sonnet" stands for claude-sonnet-4-20250514, "openai" is
\* the type whose class is None.
ProviderTypes == {NULL, "claude-code", "ollama", "openai"}
ProviderModels == {NULL, "default", "sonnet"}
ProviderConfigs == [type : ProviderTypes, model : ProviderModels]

\* the keys of providers_config and the roles asked for
ConfigKeys == {"architect", "reviewer", "default"}
Roles == {"architect", "developer", "reviewer"}

\* an empty dict is falsy
Falsy(config) == config.type = NULL /\ config.model = NULL

\* create_for_role lines 167-172: the role's entry, else the default entry,
\* else (or when that dict is empty) the OAuth provider
ConfigForRole(role, providers_config) ==
    LET config == IF role \in DOMAIN providers_config THEN providers_config[role]
                  ELSE IF "default" \in DOMAIN providers_config THEN providers_config["default"]
                  ELSE [type |-> NULL, model |-> NULL]
    IN IF Falsy(config) THEN [type |-> "claude-code", model |-> "sonnet"] ELSE config

\* create line 110: config.get("type", "claude-code")
provider_type(config) == IF config.type = NULL THEN "claude-code" ELSE config.type

\* create line 115: f"{provider_type}:{config.get('model', 'default')}"; no
\* provider type holds a colon, so the string is given as the pair
cache_key(config) ==
    <<provider_type(config), IF config.model = NULL THEN "default" ELSE config.model>>

\* create lines 129-132: the ProviderConfig the new provider is built with
provider_config(config) ==
    [type |-> provider_type(config),
     model |-> IF config.model = NULL THEN "sonnet" ELSE config.model]

\* the class attributes of ProviderFactory at import (_instances = {}) and a
\* providers_config; `providers` are the objects constructed so far, each
\* with its ProviderConfig, `returned` what the calls since the last
\* clear_cache returned (the index of the object in `providers`)
InitProviders ==
    /\ Idle
    /\ \E keys \in SUBSET ConfigKeys : \E providers_config \in [keys -> ProviderConfigs] :
          call = [fn |-> "ProviderFactory", arg |-> providers_config, done |-> FALSE,
                  out |-> [instances |-> {}, providers |-> <<>>, returned |-> <<>>,
                           creates |-> 0, raised |-> FALSE]]

\* ProviderFactory.create_for_role(role, providers_config), create with cache=True
CreateForRole ==
    /\ call.fn = "ProviderFactory"
    /\ call.out.creates < MaxCreates
    /\ \E role \in Roles :
        LET st == call.out
            config == ConfigForRole(role, call.arg)
            key == cache_key(config)
            cached == {e \in st.instances : e.key = key}
            called == [st EXCEPT !.creates = @ + 1, !.raised = FALSE]
        IN IF cached # {}
           THEN Loop([called EXCEPT !.returned =
                         Append(@, [config |-> config, provider |-> (CHOOSE e \in cached : TRUE).provider])])
           ELSE IF provider_type(config) = "openai"
           THEN Loop([called EXCEPT !.raised = TRUE])
           ELSE Loop([called EXCEPT
                        !.providers = Append(@, provider_config(config)),
                        !.instances = @ \cup {[key |-> key, provider |-> Len(st.providers) + 1]},
                        !.returned = Append(@, [config |-> config,
                                                provider |-> Len(st.providers) + 1])])

\* ProviderFactory.clear_cache
ClearCache ==
    /\ call.fn = "ProviderFactory"
    /\ call.out.instances # {}
    /\ Loop([call.out EXCEPT !.instances = {}, !.returned = <<>>, !.raised = FALSE])

SpecProviders == InitProviders /\ [][CreateForRole \/ ClearCache]_vars

\* ------------------------------------------- tasks: optimistic locking
\* columns 1 and 2 belong to the task's board, column 3 does not
BoardColumns == {1, 2}
ColumnIds == {1, 2, 3}

\* the versions a client can send; Missing is a TaskUpdate without version
SentVersions == 1..(MaxTaskCalls + 1)

\* TaskUpdate (title and version) and TaskMove bodies
TaskUpdates == [title : {"unset", "edited"}, version : SentVersions \cup {Missing}]
TaskMoves == [column_id : ColumnIds, order : {0, 1}, version : SentVersions]

\* the row of a task created by create_task; version has default 1
NewTask == [title |-> "created", column_id |-> 1, order |-> 0, version |-> 1]

\* mutant: a version newer than the stored one is let through
VersionMatches_NotOlder(stored, sent) == sent >= stored

\* the comparison of update_task line 363 and move_task line 411
VersionMatches(stored, sent) == stored = sent

\* WorkflowService.validate_transition: the same column and a board without
\* active workflow allow everything, else the transition must be listed
validate_transition(workflow, from_column_id, to_column_id) ==
    \/ from_column_id = to_column_id
    \/ ~workflow.active
    \/ <<from_column_id, to_column_id>> \in workflow.transitions

\* BoardService.update_task on the loaded object `task`: the HTTP status and
\* the object as flushed
update_task(task, task_data) ==
    IF task_data.version # Missing /\ ~VersionMatches(task.version, task_data.version)
    THEN [status |-> 409, task |-> task]
    ELSE [status |-> 200,
          task |-> [task EXCEPT !.title = IF task_data.title = "unset" THEN @ ELSE task_data.title,
                                !.version = @ + 1]]

\* BoardService.move_task on the loaded object `task`
move_task(task, move_data, workflow) ==
    CASE ~VersionMatches(task.version, move_data.version) -> [status |-> 409, task |-> task]
      [] VersionMatches(task.version, move_data.version)
            /\ move_data.column_id \notin BoardColumns -> [status |-> 404, task |-> task]
      [] VersionMatches(task.version, move_data.version)
            /\ move_data.column_id \in BoardColumns
            /\ ~validate_transition(workflow, task.column_id, move_data.column_id) ->
               [status |-> 403, task |-> task]
      [] OTHER ->
               [status |-> 200,
                task |-> [task EXCEPT !.column_id = move_data.column_id,
                                      !.order = move_data.order,
                                      !.version = @ + 1]]

\* the workflows a board can have: none active, or one that only allows 1 -> 2
Workflows == {[active |-> FALSE, transitions |-> {}],
              [active |-> TRUE, transitions |-> {<<1, 2>>}]}

NoRequest == [op |-> NULL, before |-> NewTask, sent |-> Missing, column_id |-> 1, status |-> 0]

\* one task of a board; the requests are served one after the other
InitTaskCalls ==
    /\ Idle
    /\ \E workflow \in Workflows :
          call = [fn |-> "tasks", arg |-> workflow, done |-> FALSE,
                  out |-> [task |-> NewTask, calls |-> 0, last |-> NoRequest]]

\* PUT /tasks/{id}: update_task, then the commit of the request's session
\* (a raised HTTPException rolls it back)
UpdateTaskCall ==
    /\ call.fn = "tasks"
    /\ call.out.calls < MaxTaskCalls
    /\ \E task_data \in TaskUpdates :
        LET r == update_task(call.out.task, task_data) IN
        Loop([task |-> r.task, calls |-> call.out.calls + 1,
              last |-> [op |-> "update_task", before |-> call.out.task,
                        sent |-> task_data.version, column_id |-> call.out.task.column_id,
                        status |-> r.status]])

\* PUT /tasks/{id}/move: move_task, then the commit
MoveTaskCall ==
    /\ call.fn = "tasks"
    /\ call.out.calls < MaxTaskCalls
    /\ \E move_data \in TaskMoves :
        LET r == move_task(call.out.task, move_data, call.arg) IN
        Loop([task |-> r.task, calls |-> call.out.calls + 1,
              last |-> [op |-> "move_task", before |-> call.out.task,
                        sent |-> move_data.version, column_id |-> move_data.column_id,
                        status |-> r.status]])

SpecTaskCalls == InitTaskCalls /\ [][UpdateTaskCall \/ MoveTaskCall]_vars

\* ---------------------------------- tasks: requests in separate sessions
\* two requests at a time, each in the session get_db gives it
Sessions == {1, 2}

IdleSession == [pc |-> "idle", sent |-> Missing, obj |-> NewTask, dirty |-> {}]

\* the UPDATE a flush emits: the columns set on the object, on the row as it
\* is when the statement runs (READ COMMITTED)
MergeTask(row, obj, dirty) ==
    [col \in DOMAIN row |-> IF col \in dirty THEN obj[col] ELSE row[col]]

InitTasks ==
    /\ Idle
    /\ \E workflow \in Workflows :
          call = [fn |-> "task_sessions", arg |-> workflow, done |-> FALSE,
                  out |-> [task |-> NewTask, lock |-> 0, calls |-> 0,
                           sess |-> [n \in Sessions |-> IdleSession],
                           accepted |-> <<>>, rejected |-> 0]]

\* what a request does up to its flush: get_task (a plain SELECT of the
\* committed row), the version check and the validation, the changes on the
\* loaded object
Loaded(n, r, sent, dirty) ==
    LET st == call.out IN
    IF r.status = 200
    THEN Loop([st EXCEPT !.calls = @ + 1,
                         !.sess[n] = [pc |-> "flush", sent |-> sent, obj |-> r.task,
                                      dirty |-> dirty]])
    ELSE Loop([st EXCEPT !.calls = @ + 1, !.rejected = @ + 1])

UpdateTaskLoad ==
    /\ call.fn = "task_sessions"
    /\ call.out.calls < MaxTaskCalls
    /\ \E n \in Sessions : \E task_data \in TaskUpdates :
        /\ call.out.sess[n].pc = "idle"
        /\ task_data.version # Missing
        /\ Loaded(n, update_task(call.out.task, task_data), task_data.version,
                  IF task_data.title = "unset" THEN {"version"} ELSE {"title", "version"})

MoveTaskLoad ==
    /\ call.fn = "task_sessions"
    /\ call.out.calls < MaxTaskCalls
    /\ \E n \in Sessions : \E move_data \in TaskMoves :
        /\ call.out.sess[n].pc = "idle"
        /\ Loaded(n, move_task(call.out.task, move_data, call.arg), move_data.version,
                  {"column_id", "order", "version"})

\* db.flush(): the UPDATE takes the row lock, waiting while another
\* transaction holds it
TaskFlush ==
    /\ call.fn = "task_sessions"
    /\ \E n \in Sessions :
        /\ call.out.sess[n].pc = "flush"
        /\ call.out.lock = 0
        /\ Loop([call.out EXCEPT !.lock = n, !.sess[n].pc = "commit"])

\* the commit of the request's session: the response is 200
TaskCommit ==
    /\ call.fn = "task_sessions"
    /\ \E n \in Sessions :
        LET st == call.out IN
        /\ st.sess[n].pc = "commit"
        /\ Loop([st EXCEPT !.task = MergeTask(st.task, st.sess[n].obj, st.sess[n].dirty),
                            !.lock = 0,
                            !.sess[n] = IdleSession,
                            !.accepted = Append(@, [sent |-> st.sess[n].sent,
                                                    version |-> st.sess[n].obj.version])])

SpecTasks == InitTasks /\ [][UpdateTaskLoad \/ MoveTaskLoad \/ TaskFlush \/ TaskCommit]_vars

\* one run of the background runner with no other request on the execution,
\* every backend call meeting any of the outcomes
InitBackend ==
    /\ Created
    /\ origin = "api"
    /\ backends = BackendOutcomes
    /\ outputs = <<>>
    /\ qresult = NoQuery
    /\ call = NoCall

RunnerNext ==
    \/ RunnerStartBegin
    \/ RunnerStartCommit
    \/ RunnerPhaseBegin
    \/ RunnerCreateOutput
    \/ RunnerPhaseOk
    \/ RunnerPhaseFail
    \/ RunnerFeedbackIncrement
    \/ RunnerFinalize
    \/ RunnerFail
    \/ RunnerCommit
    \/ RunnerRollback

SpecBackend == InitBackend /\ [][RunnerNext]_vars

\* ------------------------------------------------------------ typing
TypeOK ==
    /\ dbExec.status \in Statuses
    /\ dbExec.current_phase \in Phases \cup {NULL}
    /\ dbExec.iteration \in Nat
    /\ rexec.status \in Statuses
    /\ execLock \in {"none", "runner", "hrf"}
    /\ taskLock \in {"none", "runner"}
    /\ \A i \in 1..Len(outputs) : outputs[i].phase \in Phases

\* ================================================================ claims

\* rows of agent_outputs inserted by execute_workflow (the runner's session)
RunnerOutputs == LET own(o) == o.owner = "runner" IN SelectSeq(outputs, own)

\* the runner's Outputs of one phase / of one iteration
RunnerOutputsOf(phase) == LET p(o) == o.phase = phase IN SelectSeq(RunnerOutputs, p)
RunnerOutputsAt(iteration) == LET p(o) == o.iteration = iteration IN SelectSeq(RunnerOutputs, p)

\* the verdicts the runner's reviews have returned, in order
RunnerVerdicts ==
    LET done(o) == o.status = "completed" IN
    LET rs == SelectSeq(RunnerOutputsOf("review"), done) IN
    [i \in 1..Len(rs) |-> rs[i].verdict]

PhasesOf(rows) == [i \in 1..Len(rows) |-> rows[i].phase]

IsPrefix(a, b) == Len(a) <= Len(b) /\ \A i \in 1..Len(a) : a[i] = b[i]

\* the runner's start_execution checks the status of the loaded execution
RunnerStartCheckStep == rpc = "spawned" /\ rpc' # "spawned" /\ calls'.restart = calls.restart

\* a start_execution call in a session of its own takes place
StartCallStep == calls'.start = calls.start + 1

\* what a successful start_execution leaves behind once committed
StartedPost ==
    /\ dbExec'.status = "running"
    /\ dbExec'.started_at # NULL
    /\ dbTask'.agent_status = "running"
    /\ Len(activities') = Len(activities) + 1
    /\ activities'[Len(activities')].type = "agent_started"

\* a call of cancel_execution begins in this step
CancelStep == cpc = "idle" /\ calls'.cancel = calls.cancel + 1

\* C1: once the committed status of the Execution is completed, failed or
\* cancelled, no step changes its status, iteration, completed_at or
\* result_summary.
C1_TerminalImmutable ==
    [][dbExec.status \in Terminal =>
          /\ dbExec'.status = dbExec.status
          /\ dbExec'.iteration = dbExec.iteration
          /\ dbExec'.completed_at = dbExec.completed_at
          /\ dbExec'.result_summary = dbExec.result_summary]_vars

\* C2: a cancel_execution call that finds the Execution pending or running is
\* not rejected, and when it commits the Execution is cancelled with
\* completed_at set and the task's agent_status is null.
C2_CancelActive ==
    [][/\ (CancelStep /\ dbExec.status \in {"pending", "running"})
            => (cpc' = "flush" /\ resp'.cancel # "error")
       /\ (cpc = "flush" /\ resp'.cancel = "ok")
            => /\ dbExec'.status = "cancelled"
               /\ dbExec'.completed_at # NULL
               /\ dbTask'.agent_status = NULL]_vars

C2_Witness ==
    /\ resp.cancel = "ok"
    /\ dbExec.status = "cancelled"
    /\ dbExec.completed_at = "cancel_execution"
    /\ dbTask.agent_status = NULL

\* C3: a cancel_execution call that finds the Execution completed, failed or
\* cancelled raises, and leaves the Execution, the Task, the Outputs and
\* the activity log as they were.
C3_CancelTerminalRejected ==
    [][(CancelStep /\ dbExec.status \in Terminal)
            => /\ resp'.cancel = "error"
               /\ cpc' = "idle"
               /\ UNCHANGED <<dbExec, dbTask, activities, outputs>>]_vars

C3_Witness ==
    /\ resp.cancel = "error"
    /\ calls.cancel = 2
    /\ dbExec.status = "cancelled"

\* C4: start_execution moves a pending Execution to running (started_at set,
\* task mirror running); on any other status it raises and leaves the
\* Execution, the Task and the activity log unchanged.
C4_StartOnlyPending ==
    [][/\ RunnerStartCheckStep =>
            IF dbExec.status = "pending"
            THEN rpc' = "starting"
            ELSE rpc' = "aborted" /\ UNCHANGED <<dbExec, dbTask, activities, outputs>>
       /\ (rpc = "starting" /\ rpc' = "workflow") => StartedPost
       /\ StartCallStep =>
            IF dbExec.status = "pending"
            THEN resp'.start = "ok" /\ StartedPost
            ELSE resp'.start = "error" /\ UNCHANGED <<dbExec, dbTask, activities, outputs>>]_vars

C4_Witness ==
    /\ resp.start = "error"
    /\ rpc = "workflow"
    /\ dbExec.status = "running"
    /\ dbExec.started_at = "start_execution"
    /\ dbTask.agent_status = "running"

\* C5: a development workflow whose reviews answer CHANGES_REQUESTED,
\* CHANGES_REQUESTED, APPROVED returns with 3 development and 3 review
\* Outputs, iteration 3 and status completed.
C5_Script == <<"CHANGES_REQUESTED", "CHANGES_REQUESTED", "APPROVED">>

C5_ThreeRounds ==
    (/\ rpc = "returned"
     /\ workflow_type = "development"
     /\ IsPrefix(RunnerVerdicts, C5_Script))
        => /\ Len(RunnerOutputsOf("development")) = 3
           /\ Len(RunnerOutputsOf("review")) = 3
           /\ rexec.iteration = 3
           /\ rexec.status = "completed"

\* C6: when every review answers CHANGES_REQUESTED, execute_workflow has run
\* one development and one review Output for each iteration
\* 1..max_iterations when it leaves the loop.
C6_AllIterationsRun ==
    (/\ rpc \in {"finalize", "returned"}
     /\ RunnerVerdicts # <<>>
     /\ \A i \in 1..Len(RunnerVerdicts) : RunnerVerdicts[i] = "CHANGES_REQUESTED")
        => \A k \in 1..MaxIterations :
              PhasesOf(RunnerOutputsAt(k)) = <<"development", "review">>
              \/ (k = 1 /\ PhasesOf(RunnerOutputsAt(k)) = <<"architecture", "development", "review">>)

\* C7: the iteration of the Execution, in the database and in every session
\* working on it, stays within 1..max_iterations.
C7_IterationBounded ==
    /\ dbExec.iteration \in 1..MaxIterations
    /\ rexec.iteration \in 1..MaxIterations
    /\ hexec.iteration \in 1..MaxIterations
    /\ \A i \in 1..Len(outputs) : outputs[i].iteration \in 1..MaxIterations

C7_Witness ==
    /\ rexec.iteration = 2
    /\ dbExec.iteration = MaxIterations
    /\ calls.feedback = 2
    /\ resp.feedback = "error"
    /\ dbExec.status = "completed"

C9_Table(wt) ==
    CASE wt = "development" -> <<"architecture", "development", "review">>
      [] wt = "quick_development" -> <<"development", "review">>
      [] wt = "architecture_only" -> <<"architecture">>

C9_PhaseSequence ==
    (workflow_type \in {"development", "quick_development", "architecture_only"}) =>
        /\ IsPrefix(PhasesOf(RunnerOutputsAt(1)), C9_Table(workflow_type))
        /\ \A k \in 2..MaxIterations :
              IsPrefix(PhasesOf(RunnerOutputsAt(k)), <<"development", "review">>)
        /\ \A i \in 1..Len(RunnerOutputs) : \A j \in i..Len(RunnerOutputs) :
              RunnerOutputs[i].iteration <= RunnerOutputs[j].iteration
        /\ (rpc \in {"finalize", "returned"}) =>
              /\ PhasesOf(RunnerOutputsAt(1)) = C9_Table(workflow_type)
              /\ \A k \in 2..rexec.iteration :
                    PhasesOf(RunnerOutputsAt(k)) = <<"development", "review">>
              /\ \A k \in (rexec.iteration + 1)..MaxIterations : RunnerOutputsAt(k) = <<>>

C9_Witness ==
    /\ rpc = "returned"
    /\ workflow_type = "development"
    /\ rexec.iteration = 2
    /\ PhasesOf(RunnerOutputs) = <<"architecture", "development", "review", "development", "review">>

\* C10: an architecture_only execution created and started through the start
\* endpoint, with no other call made on it, whose architecture phase
\* succeeds ends completed with exactly one Output (architecture, completed)
\* and result_summary.phases_completed = 1.
C10_ArchitectureOnly ==
    (/\ origin = "api"
     /\ workflow_type = "architecture_only"
     /\ calls.cancel = 0 /\ calls.feedback = 0
     /\ rpc = "done")
        => /\ Len(outputs) = 1
           /\ outputs[1].phase = "architecture"
           /\ outputs[1].status = "completed"
           /\ outputs[1].committed
           /\ dbExec.status = "completed"
           /\ dbExec.result_summary.present
           /\ dbExec.result_summary.phases_completed = 1

C10_Witness ==
    /\ origin = "api"
    /\ workflow_type = "architecture_only"
    /\ calls.cancel = 0 /\ calls.feedback = 0
    /\ rpc = "done"
    /\ dbExec.status = "completed"
    /\ dbExec.result_summary.phases_completed = 1

\* C11: when the backend of the architecture phase is unavailable, the
\* architecture Output still ends completed with the simulated fallback
\* content, and the run does not end failed.
C11_ArchitectureFallback ==
    \A i \in 1..Len(outputs) :
        (outputs[i].phase = "architecture" /\ outputs[i].backend = "unavailable")
            => /\ outputs[i].status = "completed"
               /\ outputs[i].content = "simulated"
               /\ rexec.status # "failed"

\* C12: when the wall-clock timeout of the development phase's CLI call
\* expires, the development Output ends failed without a substitute content
\* and the run ends failed.
C12_TimeoutFailsPhase ==
    \A i \in 1..Len(outputs) :
        (outputs[i].phase = "development" /\ outputs[i].backend = "timeout")
            => /\ outputs[i].status = "failed"
               /\ outputs[i].content = NULL
               /\ rexec.status # "completed"

\* C13: when a phase raises during execute_workflow, the exception leaves
\* execute_workflow with that phase's Output failed (error_message and
\* completed_at set), the Execution failed (error_message and completed_at
\* set) and the task's agent_status failed in the workflow's session; from
\* the raise on no further Output is created and execute_workflow does not
\* return normally.
C13_PhaseFailureAborts ==
    [][/\ rpc' = "raised" =>
            /\ HasOwn("runner")'
            /\ outputs'[OwnLast("runner")'].status = "failed"
            /\ outputs'[OwnLast("runner")'].error_message # NULL
            /\ outputs'[OwnLast("runner")'].completed_at # NULL
            /\ rexec'.status = "failed"
            /\ rexec'.error_message # NULL
            /\ rexec'.completed_at # NULL
            /\ rtask' = "failed"
       /\ rpc \in {"failing", "raised"} =>
            /\ Len(RunnerOutputs') <= Len(RunnerOutputs)
            /\ rpc' \in {"raised", "aborted"}
       /\ (rpc \in {"phase_exec", "fb_dev_exec", "fb_rev_exec"}
             /\ outputs'[OwnLast("runner")].status = "failed") => rpc' = "failing"]_vars

C13_Witness ==
    /\ rpc = "raised"
    /\ ridx < Len(phases)
    /\ Len(RunnerOutputs) = 2
    /\ outputs[OwnLast("runner")].status = "failed"
    /\ outputs[OwnLast("runner")].phase = "development"
    /\ rexec.status = "failed"

\* C14: once the background runner has ended (no restart, no other request),
\* the committed status of the Execution is terminal; after a phase failure it
\* is failed with error_message set.
C14_RunnerEndsTerminal ==
    rpc \in {"done", "aborted"} =>
        /\ dbExec.status \in Terminal
        /\ rexec.status = "failed" =>
              (dbExec.status = "failed" /\ dbExec.error_message # NULL)

\* C15: while a phase of the run is executing, a status query made from
\* another session shows the Output of every phase of the run that has
\* already ended and the iteration the run is in.
C15_QuerySeesProgress ==
    rpc \in {"phase_exec", "fb_dev_exec", "fb_rev_exec"} =>
        LET st == get_execution_status("query") IN
        /\ st.iteration = rexec.iteration
        /\ \A i \in 1..Len(RunnerOutputs) :
              RunnerOutputs[i].completed_at # NULL =>
                 \E j \in 1..Len(st.outputs) :
                    /\ st.outputs[j].phase = RunnerOutputs[i].phase
                    /\ st.outputs[j].iteration = RunnerOutputs[i].iteration
                    /\ st.outputs[j].status = RunnerOutputs[i].status

\* the Outputs with status running, in whatever session they live
RunningOutputs == {i \in 1..Len(outputs) : outputs[i].status = "running"}

\* C16: under every interleaving of execute_workflow and
\* handle_review_feedback at most one Output of the Execution has status
\* running, and an Output is created only when no Output is running.
C16_OnePhaseAtATime ==
    [][/\ Cardinality(RunningOutputs') <= 1
       /\ Len(outputs') > Len(outputs) => RunningOutputs = {}]_vars

C16_Witness ==
    /\ rpc = "phase_exec"
    /\ hpc = "iter_flush"
    /\ execLock = "runner"
    /\ Cardinality(RunningOutputs) = 1

\* the Output row `o` is persisted as far as `session` can see
SeenBy(o, session) == o.committed \/ o.owner = session

\* C17: a development Output of iteration n+1 is created only when a review
\* Output of iteration n is persisted with status completed and verdict
\* CHANGES_REQUESTED, and a review Output of iteration n+1 only when a
\* development Output of iteration n+1 is persisted completed.
C17_RerunAfterReview ==
    [][Len(outputs') = Len(outputs) + 1 =>
          LET new == outputs'[Len(outputs')] IN
          /\ (new.phase = "development" /\ new.iteration > 1) =>
                \E i \in 1..Len(outputs) :
                    /\ SeenBy(outputs[i], new.owner)
                    /\ outputs[i].phase = "review"
                    /\ outputs[i].iteration = new.iteration - 1
                    /\ outputs[i].status = "completed"
                    /\ outputs[i].verdict = "CHANGES_REQUESTED"
          /\ (new.phase = "review" /\ new.iteration > 1) =>
                \E i \in 1..Len(outputs) :
                    /\ SeenBy(outputs[i], new.owner)
                    /\ outputs[i].phase = "development"
                    /\ outputs[i].iteration = new.iteration
                    /\ outputs[i].status = "completed"]_vars

\* the completed Output of the phase with the highest (iteration, created_at)
\* among the rows the session sees; 0 when there is none
LatestRow(session, phase) ==
    LET outs == VisibleOutputs(session)
        match == {i \in 1..Len(outs) : outs[i].phase = phase /\ outs[i].status = "completed"}
    IN IF match = {} THEN 0
       ELSE CHOOSE i \in match : \A j \in match :
                \/ outs[j].iteration < outs[i].iteration
                \/ (outs[j].iteration = outs[i].iteration /\ j <= i)

\* C18: the latest-output query for a phase returns the Output of that phase
\* with the highest iteration and, among equal iterations, the most recent
\* created_at.
C18_LatestDeterministic ==
    qresult # NoQuery => qresult.row = LatestRow("query", qresult.phase)

\* the columns of an Output row (the commit state of its transaction aside)
Columns(o) == [o EXCEPT !.committed = TRUE]

\* the committed Outputs that have ended, in created_at order
CommittedEnded(rows) ==
    LET p(o) == o.committed /\ o.completed_at # NULL IN
    LET sel == SelectSeq(rows, p) IN [i \in 1..Len(sel) |-> Columns(sel[i])]

\* C19: an Output whose completed_at is set keeps every column in every later
\* step (phases, feedback re-runs, handle_review_feedback, cancel, result
\* summary); steps that add Outputs append them, and a rollback removes only
\* uncommitted rows.
C19_EndedOutputFrozen ==
    [][IF Len(outputs') >= Len(outputs)
       THEN \A i \in 1..Len(outputs) :
               outputs[i].completed_at # NULL =>
                   \/ outputs'[i] = outputs[i]
                   \/ outputs'[i] = Columns(outputs[i])
       ELSE CommittedEnded(outputs') = CommittedEnded(outputs)]_vars

C19_Witness ==
    /\ resp.cancel = "ok"
    /\ resp.feedback = "ok"
    /\ rexec.result_summary.present
    /\ \E i, j \in 1..Len(outputs) :
          /\ i < j
          /\ outputs[i].phase = "development" /\ outputs[i].iteration = 1
          /\ outputs[i].completed_at # NULL /\ outputs[i].committed
          /\ outputs[j].phase = "development" /\ outputs[j].iteration = 2
          /\ outputs[j].completed_at # NULL /\ outputs[j].owner = "hrf"

\* the committed review Outputs that carry a structured result
CommittedReviews ==
    {i \in 1..Len(outputs) : /\ outputs[i].committed
                             /\ outputs[i].phase = "review"
                             /\ outputs[i].status = "completed"}

\* the last review Output: of the highest iteration, or the one created last
LastReviews ==
    {i \in CommittedReviews :
        \/ \A j \in CommittedReviews : outputs[j].iteration <= outputs[i].iteration
        \/ \A j \in CommittedReviews : j <= i}

\* C20: the result_summary.review_status of a completed Execution that has a
\* result_summary is the structured status of its last review Output (NULL
\* without a review).
C20_SummaryReportsLastReview ==
    (dbExec.status = "completed" /\ dbExec.result_summary.present) =>
        IF CommittedReviews = {}
        THEN dbExec.result_summary.review_status = NULL
        ELSE \E i \in LastReviews : dbExec.result_summary.review_status = outputs[i].verdict

\* the set of the elements of a sequence
Range(seq) == {seq[i] : i \in 1..Len(seq)}

\* C21: total_tokens and total_duration_ms are the sums of tokens_used and
\* duration_ms over the Outputs (a missing value counting as 0), and
\* files_affected holds every path of the Outputs' files_created exactly once.
C21_SummaryTotals ==
    (call.fn = "build_result_summary" /\ call.done) =>
        LET rows == call.arg
            out == call.out
        IN /\ out.total_tokens = SumOf(rows, "tokens_used")
           /\ out.total_duration_ms = SumOf(rows, "duration_ms")
           /\ Range(out.files_affected) = UNION {Range(rows[i].files_created) : i \in 1..Len(rows)}
           /\ \A i, j \in 1..Len(out.files_affected) :
                 out.files_affected[i] = out.files_affected[j] => i = j

\* C22: the committed Execution carries a result_summary only while its
\* status is completed; a failed or cancelled Execution has none.
C22_SummaryOnlyWhenCompleted ==
    dbExec.result_summary.present => dbExec.status = "completed"

\* C23: a development or review phase whose backend is unavailable or whose
\* backend call fails stores the simulated response in an Output that ends
\* completed, and execute_workflow takes its failure path only when some
\* other Output failed.
C23_UnavailableIsSimulated ==
    /\ \A i \in 1..Len(outputs) :
          (/\ outputs[i].phase \in {"development", "review"}
           /\ outputs[i].backend \in {"unavailable", "error"})
          => (outputs[i].status = "completed" /\ outputs[i].content = "simulated")
    /\ rpc \in {"failing", "raised"} =>
          \E i \in 1..Len(outputs) :
              /\ outputs[i].status = "failed"
              /\ ~(/\ outputs[i].phase \in {"development", "review"}
                   /\ outputs[i].backend \in {"unavailable", "error"})

C23_Witness ==
    /\ rexec.status = "completed"
    /\ \E i \in 1..Len(outputs) :
          /\ outputs[i].phase = "development" /\ outputs[i].backend = "error"
          /\ outputs[i].status = "completed" /\ outputs[i].content = "simulated"
    /\ \E i \in 1..Len(outputs) :
          /\ outputs[i].phase = "review" /\ outputs[i].backend = "unavailable"
          /\ outputs[i].status = "completed" /\ outputs[i].content = "simulated"

\* C24: every Output that stores a simulated response is tagged: its
\* output_content holds the simulation note or its output_structured has
\* the key simulated; an Output that stores a backend answer has neither.
C24_SimulatedIsTagged ==
    \A i \in 1..Len(outputs) :
        /\ outputs[i].content = "simulated" => (outputs[i].marker \/ outputs[i].simulated)
        /\ outputs[i].content \in {"real", "raw"} => (~outputs[i].marker /\ ~outputs[i].simulated)

C24_Witness ==
    /\ \E i \in 1..Len(outputs) :
          /\ outputs[i].phase = "review" /\ outputs[i].content = "simulated"
          /\ outputs[i].marker /\ ~outputs[i].simulated
    /\ \E i \in 1..Len(outputs) :
          /\ outputs[i].phase = "development" /\ outputs[i].content = "simulated"
          /\ outputs[i].marker /\ outputs[i].simulated
    /\ \E i \in 1..Len(outputs) :
          /\ outputs[i].phase = "architecture" /\ outputs[i].content = "real"

\* C25: a review whose answer holds no JSON result that parses ends
\* completed with the raw text as content and without a structured result:
\* no verdict is stored for it.
C25_MalformedReviewHasNoVerdict ==
    \A i \in 1..Len(outputs) :
        (outputs[i].phase = "review" /\ outputs[i].backend = "malformed")
        => (/\ outputs[i].status = "completed"
            /\ outputs[i].content = "raw"
            /\ outputs[i].verdict = NULL)

\* paths that `tree` lists as untracked / as modified or staged
Untracked(tree) == {f \in Files : tree[f] \in {"untracked", "unindexed"}}
Changed(tree) == {f \in Files : tree[f] \in {"modified", "staged", "staged_modified", "unindexed"}}

\* C26: created is exactly the paths untracked after and not before the run,
\* modified exactly the tracked paths modified or staged after and not
\* before, the two are disjoint, all_changed is their union, and a path that
\* was untracked, modified or staged before the run is in neither.
C26_ChangedFilesExact ==
    (call.fn = "get_git_changed_files" /\ call.done) =>
        LET pre == call.arg.pre
            post == call.arg.post
            r == call.out
        IN /\ r.created = Untracked(post) \ Untracked(pre)
           /\ r.modified = (Changed(post) \ Changed(pre)) \ Untracked(post)
           /\ r.created \cap r.modified = {}
           /\ r.all_changed = r.created \cup r.modified
           /\ \A f \in Untracked(pre) \cup Changed(pre) :
                 f \notin r.created \cup r.modified

\* C28: _checkout_branch reports created, and makes a branch that is on no
\* remote, only for a branch named in the task text; for a branch of source
\* llm_suggestion or default that exists nowhere no branch is made, success
\* is false and HEAD stays on the branch it was on.
C28_CreatesOnlyFromTaskText ==
    (call.fn = "checkout_branch" /\ call.done) =>
        /\ call.out.created => call.arg.source = "task_text"
        /\ call.out.new_branch \in {"from_default", "from_previous"}
              => call.arg.source = "task_text"
        /\ (call.arg.source \in {"llm_suggestion", "default"} /\ call.arg.place = "missing")
              => (/\ call.out.new_branch = "none"
                  /\ ~call.out.success
                  /\ call.out.head = "previous")

C28_Witness ==
    /\ call.fn = "checkout_branch" /\ call.done
    /\ call.arg.source = "task_text" /\ call.arg.place = "missing"
    /\ call.out.success /\ call.out.created
    /\ call.out.new_branch = "from_default" /\ call.out.head = "target"

\* the branch named by the task is not checked out after _checkout_branch
CheckoutFailed(d) ==
    /\ d.source # NULL
    /\ checkout_branch(d.source, d.source = "task_text", d.place, Uniform(d.fault)).head # "target"

\* the auto-commit ran and made no commit of the changed files
CommitFailed(d) == d.report = "some" /\ d.commit # "ok"

\* C27: when no other statement of the development phase raises, a failed
\* checkout or auto-commit leaves the Output completed with the agent's
\* content and files; the Output records checkout_success = false for the
\* failed checkout and committed = false with a reason for the failed commit.
C27_GitFailureNotFatal ==
    (call.fn = "run_development_phase" /\ call.done /\ ~call.arg.raises) =>
        /\ call.out.status = "completed"
        /\ call.out.content = cli_execute(call.arg.b)
        /\ call.out.files = (call.arg.report # "none")
        /\ CheckoutFailed(call.arg) => call.out.checkout_success = FALSE
        /\ CommitFailed(call.arg) =>
              (/\ call.out.commit.present
               /\ ~call.out.commit.committed
               /\ call.out.commit.reason # NULL)

C27_Witness ==
    /\ call.fn = "run_development_phase" /\ call.done /\ ~call.arg.raises
    /\ CheckoutFailed(call.arg) /\ call.arg.fault = "raise"
    /\ CommitFailed(call.arg) /\ call.arg.commit = "raise"
    /\ call.out.status = "completed" /\ call.out.content = "real"
    /\ call.out.checkout_success = FALSE
    /\ ~call.out.commit.committed /\ call.out.commit.reason = "exception"

\* the lines of a stream: what stands before each newline, and the partial
\* line after the last one
RECURSIVE LinesOf(_, _)
LinesOf(stream, line) ==
    IF stream = <<>> THEN <<line>>
    ELSE IF Head(stream) = NL THEN <<line>> \o LinesOf(Tail(stream), <<>>)
    ELSE LinesOf(Tail(stream), Append(line, Head(stream)))

CompleteLines(stream) == LET l == LinesOf(stream, <<>>) IN SubSeq(l, 1, Len(l) - 1)
PartialLine(stream) == LET l == LinesOf(stream, <<>>) IN l[Len(l)]

\* the events of the lines that parse, and their texts
RECURSIVE EventsOf(_)
EventsOf(lines) ==
    IF lines = <<>> THEN <<>>
    ELSE (IF parse_stream_json_line(Head(lines)) = NoEvent THEN <<>>
          ELSE <<parse_stream_json_line(Head(lines))>>) \o EventsOf(Tail(lines))

RECURSIVE TextsOf(_)
TextsOf(events) ==
    IF events = <<>> THEN <<>>
    ELSE (IF Head(events).text = "" THEN <<>> ELSE <<Head(events).text>>) \o TextsOf(Tail(events))

\* C29: the driver returns one event per complete line that parses and none
\* for the others, its content is the text of those events, and the partial
\* line after the last newline adds an event or text only when it parses
\* as a record by itself.
C29_StreamParsing ==
    (call.fn = "run_cli_with_streaming_pty" /\ call.done) =>
        LET stream == Join(call.arg)
            events == EventsOf(CompleteLines(stream))
            last == EventsOf(<<PartialLine(stream)>>)
        IN /\ call.out.structured_events = events \o last
           /\ \/ call.out.content = TextsOf(events)
              \/ call.out.content = TextsOf(events \o last)

C31_OneInstancePerTypeAndModel ==
    call.fn = "ProviderFactory" =>
        LET st == call.out IN
        \A i, j \in 1..Len(st.returned) :
            (st.providers[st.returned[i].provider] = st.providers[st.returned[j].provider])
            <=> (st.returned[i].provider = st.returned[j].provider)

\* the request served last carried the version stored / another version
SentStored == call.out.last.op # NULL /\ call.out.last.sent = call.out.last.before.version
SentOther ==
    /\ call.out.last.op # NULL
    /\ call.out.last.sent # Missing
    /\ call.out.last.sent # call.out.last.before.version

\* the move asked for is one the board allows
MoveAllowed ==
    /\ call.out.last.column_id \in BoardColumns
    /\ validate_transition(call.arg, call.out.last.before.column_id, call.out.last.column_id)

C37_OneWriterPerVersion ==
    call.fn = "task_sessions" =>
        LET st == call.out IN
        /\ \A i, j \in 1..Len(st.accepted) :
              i # j => st.accepted[i].sent # st.accepted[j].sent
        /\ st.task.version = NewTask.version + Len(st.accepted)

\* ------------------------------------------------- clarification answers
MaxExecutions == 3

\* the task's executions in created_at order, each with a status the
\* status column admits (agent_execution.py line 58)
ExecutionRows == UNION {[1..n -> Statuses] : n \in 0..MaxExecutions}

\* AgentOrchestrator.resume_with_clarification: HybridOrchestrator defines
\* no such attribute, the lookup at line 311 raises AttributeError
resume_with_clarification(executions, execution_id) == RAISE

\* POST /tasks/{task_id}/clarify (the task exists)
submit_clarification(executions) ==
    LET awaiting == {i \in DOMAIN executions : executions[i] = "awaiting_clarification"}
        latest == CHOOSE i \in awaiting : \A j \in awaiting : j <= i
        resumed == resume_with_clarification(executions, latest)
    IN
    IF awaiting = {}
    THEN [status |-> 400, executions |-> executions, started |-> Missing]
    ELSE IF resumed = RAISE
         THEN \* except Exception: rollback, HTTP 500
              [status |-> 500, executions |-> executions, started |-> Missing]
         ELSE [status |-> 200, executions |-> resumed, started |-> Len(resumed)]

InitClarify ==
    /\ Idle
    /\ \E executions \in ExecutionRows : Called("submit_clarification", executions)

SubmitClarification ==
    Returns("submit_clarification", submit_clarification(call.arg))

SpecClarify == InitClarify /\ [][SubmitClarification]_vars

C34_ReviewOnlyRunsOnlyReview ==
    workflow_type = "review_only" =>
        \A i \in 1..Len(outputs) : outputs[i].phase = "review"

\* a call of handle_review_feedback begins in this step
HrfStep == hpc = "idle" /\ calls'.feedback = calls.feedback + 1

\* handle_review_feedback returns from an accepted rejection in this step
HrfRejectionReturns == hpc = "commit" /\ hpc' = "idle" /\ calls'.restart = calls.restart

\* the rows the call of handle_review_feedback in progress has inserted
HrfInserted == LET new(o) == o.owner = "hrf" /\ ~o.committed IN SelectSeq(outputs, new)

\* C35: handle_review_feedback raises and leaves the execution, its Outputs
\* and the task as they are when the execution is neither running nor
\* completed, and accepts no rejection at iteration >= max_iterations; a
\* rejection it accepts raises the iteration it found by exactly 1, and when
\* it returns that iteration is stored and exactly one development Output
\* followed by one review Output, both at the new iteration, have been added.
C35_FeedbackEffects ==
    [][/\ (HrfStep /\ dbExec.status \notin {"running", "completed"})
            => /\ resp'.feedback = "error"
               /\ hpc' = "idle"
               /\ UNCHANGED <<dbExec, dbTask, outputs>>
       /\ (HrfStep /\ dbExec.iteration >= MaxIterations)
            => /\ hpc' # "iter_flush"
               /\ UNCHANGED <<dbExec, dbTask, outputs>>
       /\ (HrfStep /\ hpc' = "iter_flush")
            => hexec'.iteration = dbExec.iteration + 1
       /\ HrfRejectionReturns
            => /\ dbExec'.iteration = hexec.iteration
               /\ resp'.feedback = "ok"
               /\ Len(outputs') = Len(outputs)
               /\ PhasesOf(HrfInserted) = <<"development", "review">>
               /\ \A i \in 1..Len(HrfInserted) :
                     /\ HrfInserted[i].iteration = dbExec'.iteration
                     /\ outputs'[Len(outputs) - Len(HrfInserted) + i]
                            = [HrfInserted[i] EXCEPT !.committed = TRUE]]_vars

C35_Witness ==
    /\ resp.feedback = "ok"
    /\ calls.feedback = 1
    /\ hpc = "idle"
    /\ dbExec.iteration = 2
    /\ \E i \in 1..Len(outputs) :
          /\ outputs[i].owner = "hrf" /\ outputs[i].committed
          /\ outputs[i].phase = "review" /\ outputs[i].iteration = 2

\* ------------------------------------------------- the sweep over a table
\* started_at against the threshold of the sweep: now - 1 hour
StartedAts == {NULL, "recent", "old"}

\* rows of agent_executions as the handlers leave them: a pending execution
\* has not started, a running or awaiting one has, an ended one has ended
ExecutionStates ==
    {row \in [status : Statuses, started_at : StartedAts,
              completed_at : {NULL, "ended"}, error_message : {NULL, "error"}] :
        /\ row.status = "pending" => row.started_at = NULL
        /\ row.status \in {"running", "awaiting_clarification"} => row.started_at # NULL
        /\ (row.status \in Terminal) <=> (row.completed_at # NULL)
        /\ row.error_message # NULL => row.status = "failed"}

ExecutionTables == UNION {[1..n -> ExecutionStates] : n \in 0..MaxExecutions}

\* the UPDATE statement over the whole table
sweep(rows) ==
    [i \in DOMAIN rows |-> cleanup_stale_executions(rows[i], rows[i].started_at = "old")]

InitSweep ==
    /\ Idle
    /\ \E rows \in ExecutionTables : Called("cleanup_stale_executions", rows)

CleanupStaleExecutions ==
    Returns("cleanup_stale_executions", sweep(call.arg))

SpecSweep == InitSweep /\ [][CleanupStaleExecutions]_vars

\* C36: the sweep turns every execution that is running with started_at more
\* than an hour old to failed, with its error message and completed_at set,
\* and leaves every other execution as it was.
C36_SweepFrame ==
    (call.fn = "cleanup_stale_executions" /\ call.done) =>
        /\ DOMAIN call.out = DOMAIN call.arg
        /\ \A i \in DOMAIN call.arg :
              LET before == call.arg[i]
                  after == call.out[i]
              IN
              IF before.status = "running" /\ before.started_at = "old"
              THEN /\ after.status = "failed"
                   /\ after.error_message = "stale"
                   /\ after.completed_at = "cleanup_stale_executions"
                   /\ after.started_at = before.started_at
              ELSE after = before

C36_Witness ==
    /\ call.fn = "cleanup_stale_executions" /\ call.done
    /\ \E i, j, k \in DOMAIN call.arg :
          /\ call.arg[i].status = "running" /\ call.arg[i].started_at = "old"
          /\ call.out[i].status = "failed"
          /\ call.arg[j].status = "running" /\ call.arg[j].started_at = "recent"
          /\ call.out[j].status = "running"
          /\ call.arg[k].status = "awaiting_clarification" /\ call.arg[k].started_at = "old"
          /\ call.out[k] = call.arg[k]

\* the values of agent_status for which start_*_phase refuses a new workflow
ActiveAgentStatuses == {"pending", "running", "architecture", "development", "review"}

\* C38: whenever the committed Execution the task points to is completed,
\* failed or cancelled, the committed agent_status of the task is none of
\* pending, running, architecture, development, review.
C38_MirrorFollowsEnd ==
    (dbTask.current_execution /\ dbExec.status \in Terminal)
        => dbTask.agent_status \notin ActiveAgentStatuses

\* C39: while an Output inserted by execute_workflow is running, the
\* current_phase of the Execution and the agent_status of the task, as the
\* workflow's session holds them, equal the phase of that Output.
C39_PhaseMirrorsRunningOutput ==
    \A i \in 1..Len(outputs) :
        (outputs[i].owner = "runner" /\ outputs[i].status = "running")
            => /\ rexec.current_phase = outputs[i].phase
               /\ rtask = outputs[i].phase

\* C40: no two committed Outputs of the Execution have the same phase and
\* the same iteration.
C40_OneOutputPerPhaseAndIteration ==
    \A i, j \in 1..Len(outputs) :
        (/\ i # j
         /\ outputs[i].committed /\ outputs[j].committed
         /\ outputs[i].phase = outputs[j].phase)
            => outputs[i].iteration # outputs[j].iteration

====
